---- MODULE Spec2Model ----
(***************************************************************************)
(* Film camera light meter (react_light_meter).  Model of the exposure     *)
(* metering engine of the most complete variant of the application        *)
(* (src/unnamed/part_001, lines 29-858): EV calculator, exposure resolver, *)
(* temporal smoother, AE lock and the React component's state machine.     *)
(*                                                                         *)
(* Numbers.  JavaScript doubles are modelled in fixed point:               *)
(*   - an EV is an integer count of micro-EV (EVUnit units per EV);        *)
(*   - brightness is an integer 0..255;                                    *)
(*   - compensation is an integer count of tenths of an EV;               *)
(*   - calibrationFactor and smoothingFactor count hundredths;             *)
(*   - an aperture is its f-number in tenths (f/2.8 is 28);                *)
(*   - a shutter time 1/k s is its reciprocal k (1/125 s is 125).          *)
(* A value that can be non-finite is a record [k, v] with k one of "fin",  *)
(* "ninf", "pinf", "nan", following IEEE-754 for the operations used.      *)
(* Math.log2 is computed by Log2Micro, accurate to about 1e-4 EV and exact *)
(* on powers of two.  Rounding of doubles below 1e-6 EV is not modelled.   *)
(***************************************************************************)
EXTENDS Integers, Sequences, FiniteSets, TLC

VARIABLES
  \* React state of App (useState) and its refs (useRef)
  step, stream, iso, compensation, priorityMode, calibrationFactor,
  meteringMode, smoothingFactor, colorChannelMode, filmPreset,
  aeLocked, lockedEVRef, chosenAperture, chosenShutter,
  overExposureThreshold, underExposureThreshold,
  exposure, exposureWarning, error, smoothedEVRef,
  \* the browser
  localStorage,   \* the six keys the save effect writes
  mounted,        \* the mount effects of App have run
  avgBrightness,  \* what computeBrightness returned in the last tick
  renderedAeLocked,  \* the aeLocked of the render whose handlers and
                     \* interval callback are in place
  tickOutcome,    \* the path the last tick took
  budget,         \* ticks and settings changes made so far (model bound)
  \* the other specifications
  call,        \* SpecCalc: one call of a pure function of the engine
  feed         \* SpecSmoother: the smoother fed with a constant EV

----------------------------------------------------------------------------
(* Floating-point values *)

EVUnit == 10^6

Fin(x) == [k |-> "fin", v |-> x]
NegInf == [k |-> "ninf", v |-> 0]
PosInf == [k |-> "pinf", v |-> 0]
NaN == [k |-> "nan", v |-> 0]

IsFinite(a) == a.k = "fin"
IsNaN(a) == a.k = "nan"

FNeg(a) ==
  CASE a.k = "fin" -> Fin(0 - a.v)
    [] a.k = "ninf" -> PosInf
    [] a.k = "pinf" -> NegInf
    [] OTHER -> NaN

FAdd(a, b) ==
  CASE a.k = "nan" \/ b.k = "nan" -> NaN
    [] a.k = "fin" /\ b.k = "fin" -> Fin(a.v + b.v)
    [] a.k = "fin" -> b
    [] b.k = "fin" -> a
    [] a.k = b.k -> a
    [] OTHER -> NaN

FSub(a, b) == FAdd(a, FNeg(b))

FAbs(a) ==
  CASE a.k = "fin" -> Fin(IF a.v < 0 THEN 0 - a.v ELSE a.v)
    [] a.k = "nan" -> NaN
    [] OTHER -> PosInf

\* a < b as JavaScript evaluates it: false when either side is NaN.
FLt(a, b) ==
  CASE a.k = "nan" \/ b.k = "nan" -> FALSE
    [] a.k = "fin" /\ b.k = "fin" -> a.v < b.v
    [] a.k = "ninf" -> b.k # "ninf"
    [] a.k = "pinf" -> FALSE
    [] OTHER -> b.k = "pinf"

FLe(a, b) ==
  CASE a.k = "nan" \/ b.k = "nan" -> FALSE
    [] OTHER -> a = b \/ FLt(a, b)

\* a * (num / den) for an integer ratio; non-finite a follows IEEE-754.
FScale(a, num, den) ==
  CASE a.k = "nan" -> NaN
    [] a.k = "fin" -> Fin((a.v * num + den \div 2) \div den)
    [] num = 0 -> NaN
    [] num > 0 -> a
    [] OTHER -> FNeg(a)

----------------------------------------------------------------------------
(* Math.log2 on a positive ratio n/d, in micro-EV *)

MantUnit == 2^14

RECURSIVE Pow2(_)
Pow2(k) == IF k = 0 THEN 1 ELSE 2 * Pow2(k - 1)

RECURSIVE FloorLog2(_, _)
FloorLog2(n, d) ==
  IF n >= 2 * d THEN 1 + FloorLog2(n, 2 * d)
  ELSE IF n < d THEN FloorLog2(2 * n, d) - 1
  ELSE 0

\* The k fraction bits of (den + r) / den, for 0 <= r < den.
RECURSIVE Mantissa(_, _, _)
Mantissa(r, den, k) ==
  IF k = 0 THEN 0
  ELSE IF 2 * r >= den
       THEN Pow2(k - 1) + Mantissa(2 * r - den, den, k - 1)
       ELSE Mantissa(2 * r, den, k - 1)

\* The k fraction bits of log2(m / MantUnit), by repeated squaring.
RECURSIVE FracBits(_, _)
FracBits(m, k) ==
  IF k = 0 THEN 0
  ELSE LET sq == (m * m) \div MantUnit
       IN IF sq >= 2 * MantUnit
          THEN Pow2(k - 1) + FracBits(sq \div 2, k - 1)
          ELSE FracBits(sq, k - 1)

Log2Micro(n, d) ==
  LET e == FloorLog2(n, d)
      num == IF e < 0 THEN n * Pow2(0 - e) ELSE n
      den == IF e > 0 THEN d * Pow2(e) ELSE d
      m == MantUnit + Mantissa(num - den, den, 14)
  IN e * EVUnit + (FracBits(m, 14) * 15625) \div 256

\* Math.log2(n / d) for integers n and d > 0: -Infinity at 0, NaN below.
Log2(n, d) ==
  IF n > 0 THEN Fin(Log2Micro(n, d))
  ELSE IF n = 0 THEN NegInf
  ELSE NaN

----------------------------------------------------------------------------
(* Candidate table *)

standardShutterSpeeds == <<1000, 500, 250, 125, 60, 30, 15, 8, 4, 2, 1>>
standardApertures_noF11 == <<14, 20, 28, 40, 56, 80, 160, 220>>

standardApertures == <<14, 20, 28, 40, 56, 80, 110, 160, 220>>

Range(s) == {s[i] : i \in 1..Len(s)}

RECURSIVE FlatMap(_, _)
FlatMap(ss, i) ==
  IF i > Len(ss) THEN <<>>
  ELSE [j \in 1..Len(standardApertures) |->
          [shutter |-> ss[i],
           aperture |-> standardApertures[j],
           ev |-> Log2Micro(standardApertures[j] * standardApertures[j] * ss[i], 100)]]
       \o FlatMap(ss, i + 1)

\* ev = Math.log2((a * a) / s), shutter-major order.
shutterApertureEV == FlatMap(standardShutterSpeeds, 1)

referenceGray == 128
referenceEV == 7

----------------------------------------------------------------------------
(* EV calculator *)

calculateEffectiveEV_ignoresIso(brightness, isoValue, comp, calibration) ==
  IF brightness <= 0 THEN NegInf
  ELSE FAdd(FAdd(Fin(referenceEV * EVUnit),
                 IF IsFinite(calibration)
                 THEN Log2(brightness * calibration.v, referenceGray * 100)
                 ELSE NaN),
            Fin(comp * (EVUnit \div 10)))

calculateEffectiveEV_zeroOnly(brightness, isoValue, comp, calibration) ==
  IF brightness = 0 THEN NegInf
  ELSE FAdd(FAdd(FAdd(Fin(referenceEV * EVUnit),
                      IF IsFinite(calibration)
                      THEN Log2(brightness * calibration.v, referenceGray * 100)
                      ELSE NaN),
                 Log2(isoValue, 100)),
            Fin(comp * (EVUnit \div 10)))

calculateEffectiveEV(brightness, isoValue, comp, calibration) ==
  IF brightness <= 0 THEN NegInf
  ELSE LET measuredEV ==
             FAdd(FAdd(Fin(referenceEV * EVUnit),
                       IF IsFinite(calibration)
                       THEN Log2(brightness * calibration.v, referenceGray * 100)
                       ELSE NaN),
                  Log2(isoValue, 100))
       IN FAdd(measuredEV, Fin(comp * (EVUnit \div 10)))

----------------------------------------------------------------------------
(* Exposure resolver *)

\* candidates.forEach(...): closestCandidate is <<>> for null, <<c>> otherwise.
RECURSIVE forEachClosest_signedDiff(_, _, _, _, _)
forEachClosest_signedDiff(candidates, i, effectiveEV, closestCandidate, minDiff) ==
  IF i > Len(candidates) THEN closestCandidate
  ELSE LET diff == FSub(Fin(candidates[i].ev), effectiveEV)
       IN IF FLt(diff, minDiff)
          THEN forEachClosest_signedDiff(candidates, i + 1, effectiveEV, <<candidates[i]>>, diff)
          ELSE forEachClosest_signedDiff(candidates, i + 1, effectiveEV, closestCandidate, minDiff)

RECURSIVE forEachClosest(_, _, _, _, _)
forEachClosest(candidates, i, effectiveEV, closestCandidate, minDiff) ==
  IF i > Len(candidates) THEN closestCandidate
  ELSE LET diff == FAbs(FSub(Fin(candidates[i].ev), effectiveEV))
       IN IF FLt(diff, minDiff)
          THEN forEachClosest(candidates, i + 1, effectiveEV, <<candidates[i]>>, diff)
          ELSE forEachClosest(candidates, i + 1, effectiveEV, closestCandidate, minDiff)

\* closestCandidate ? closestCandidate.ev - effectiveEV : 0
evDifferenceOf_noNullGuard(closestCandidate, effectiveEV) ==
  IF closestCandidate # <<>>
  THEN FSub(Fin(closestCandidate[1].ev), effectiveEV)
  ELSE FNeg(effectiveEV)

evDifferenceOf(closestCandidate, effectiveEV) ==
  IF closestCandidate # <<>>
  THEN FSub(Fin(closestCandidate[1].ev), effectiveEV)
  ELSE Fin(0)

calculateExposureShutterPriority(brightness, isoValue, comp, shutter, calibration) ==
  LET effectiveEV == calculateEffectiveEV(brightness, isoValue, comp, calibration)
      candidates == SelectSeq(shutterApertureEV, LAMBDA c : c.shutter = shutter)
      closestCandidate == forEachClosest(candidates, 1, effectiveEV, <<>>, PosInf)
  IN [shutterSpeed |-> shutter,
      aperture |-> IF closestCandidate # <<>> THEN closestCandidate[1].aperture ELSE 0,
      effectiveEV |-> effectiveEV,
      evDifference |-> evDifferenceOf(closestCandidate, effectiveEV)]

calculateExposureAperturePriority(brightness, isoValue, comp, aperture, calibration) ==
  LET effectiveEV == calculateEffectiveEV(brightness, isoValue, comp, calibration)
      candidates == SelectSeq(shutterApertureEV, LAMBDA c : c.aperture = aperture)
      closestCandidate == forEachClosest(candidates, 1, effectiveEV, <<>>, PosInf)
  IN [shutterSpeed |-> IF closestCandidate # <<>> THEN closestCandidate[1].shutter ELSE 0,
      aperture |-> aperture,
      effectiveEV |-> effectiveEV,
      evDifference |-> evDifferenceOf(closestCandidate, effectiveEV)]

----------------------------------------------------------------------------
(* Temporal smoother: the update of smoothedEVRef.current in the tick.    *)
(* prev is <<>> while the ref is null.                                     *)

smoothStep_noBlend(prev, currentEV, alpha) ==
  <<currentEV>>

\* prev * (1 - smoothingFactor) + currentEV * smoothingFactor, rounded once
\* to the micro-EV grid when every operand is finite.
smoothStep(prev, currentEV, alpha) ==
  IF prev = <<>> THEN <<currentEV>>
  ELSE IF ~IsFinite(alpha) THEN <<NaN>>
  ELSE IF IsFinite(prev[1]) /\ IsFinite(currentEV)
       THEN <<Fin((prev[1].v * (100 - alpha.v)
                   + currentEV.v * alpha.v + 50) \div 100)>>
       ELSE <<FAdd(FScale(prev[1], 100 - alpha.v, 100),
                   FScale(currentEV, alpha.v, 100))>>

----------------------------------------------------------------------------
(* Option lists of the settings step *)

isoValues == <<50, 64, 80, 100, 125, 160, 200, 250, 320, 400, 500, 640, 800,
               1000, 1250, 1600, 3200>>
compensationSteps == <<-30, -27, -23, -20, -17, -13, -10, -7, -3, 0, 3, 7, 10,
                       13, 17, 20, 23, 27, 30>>

----------------------------------------------------------------------------
(* Strings that hold numbers.  String(x) of a finite double is the         *)
(* shortest decimal that parses back to x, so the text of the number n/d   *)
(* is kept as the pair (n, d); parseInt drops the fraction, parseFloat     *)
(* keeps it, and both give NaN on text that does not start with a number   *)
(* and on null.                                                            *)

NumberToString(n, d) == [t |-> "num", n |-> n, d |-> d, s |-> ""]
TextString(txt) == [t |-> "text", n |-> 0, d |-> 1, s |-> txt]
NullString == [t |-> "null", n |-> 0, d |-> 1, s |-> ""]

\* String(x) for a value counted in units of 1/scale.
FToString(x, scale) ==
  CASE x.k = "fin" -> NumberToString(x.v, scale)
    [] x.k = "nan" -> TextString("NaN")
    [] x.k = "pinf" -> TextString("Infinity")
    [] OTHER -> TextString("-Infinity")

\* parseInt(str, 10): the integer part, truncated toward zero.
parseInt(str) ==
  IF str.t = "num"
  THEN Fin(IF str.n >= 0 THEN str.n \div str.d ELSE 0 - ((0 - str.n) \div str.d))
  ELSE NaN

\* parseFloat(str), counted in units of 1/scale.
parseFloat(str, scale) ==
  IF str.t = "num" THEN Fin((str.n * scale) \div str.d) ELSE NaN

\* parseFloat(str) of a shutter time, as its reciprocal.
parseFloatReciprocal(str) ==
  IF str.t = "num" /\ str.n > 0 THEN Fin(str.d \div str.n) ELSE NaN

----------------------------------------------------------------------------
(* The settings step: option lists and typed values *)

\* <option value={...}> of the Chosen Aperture and Chosen Shutter selects.
ApertureOptions_withF35 == <<14, 20, 28, 35, 40, 56, 80, 110, 160>>
ApertureOptions == <<14, 20, 28, 40, 56, 80, 110, 160>>
ShutterOptions == <<1000, 500, 250, 125, 60, 30, 15, 8>>

DEFAULT_OVEREXPOSURE_THRESHOLD == 245
DEFAULT_UNDEREXPOSURE_THRESHOLD == 15

\* filmPresets (calibrationFactor in hundredths, recommendedCompensation in
\* tenths of an EV).
Preset(cf, over, under, comp) ==
  [calibrationFactor |-> Fin(cf), overExposureThreshold |-> over,
   underExposureThreshold |-> under, recommendedCompensation |-> comp]

filmPresets ==
  [n \in {"Kodak Portra 400", "Ilford HP5", "Fuji Superia X-TRA 400",
          "Kodak Tri-X 400", "Kodak Portra 160", "Fujifilm Pro 400H",
          "Kodak Ektar 100", "Fujifilm Velvia 50", "Fujifilm Provia 100F",
          "Kodak Gold 200", "Ilford Delta 3200", "AgfaPhoto Vista Plus 200",
          "Cinestill 800T", "Lomography Color Negative 400",
          "Fujifilm Natura 1600", "Ilford Pan F Plus 50", "Rollei Retro 80S"} |->
     CASE n = "Kodak Portra 400" -> Preset(92, 250, 10, 3)
       [] n = "Ilford HP5" -> Preset(85, 245, 15, 0)
       [] n = "Fuji Superia X-TRA 400" -> Preset(88, 248, 12, 2)
       [] n = "Kodak Tri-X 400" -> Preset(87, 240, 18, 0)
       [] n = "Kodak Portra 160" -> Preset(93, 255, 8, 2)
       [] n = "Fujifilm Pro 400H" -> Preset(90, 252, 10, 1)
       [] n = "Kodak Ektar 100" -> Preset(95, 255, 5, 2)
       [] n = "Fujifilm Velvia 50" -> Preset(94, 253, 6, 4)
       [] n = "Fujifilm Provia 100F" -> Preset(91, 250, 8, 1)
       [] n = "Kodak Gold 200" -> Preset(93, 248, 12, 1)
       [] n = "Ilford Delta 3200" -> Preset(86, 240, 20, 0)
       [] n = "AgfaPhoto Vista Plus 200" -> Preset(92, 250, 10, 0)
       [] n = "Cinestill 800T" -> Preset(89, 247, 15, 2)
       [] n = "Lomography Color Negative 400" -> Preset(90, 250, 10, 0)
       [] n = "Fujifilm Natura 1600" -> Preset(88, 245, 15, 0)
       [] n = "Ilford Pan F Plus 50" -> Preset(95, 255, 5, 2)
       [] OTHER -> Preset(90, 250, 10, 0)]

\* What the model's user picks or types (subsets of what the page offers).
IsoChoices == {100, 400}
CompensationChoices == {-10, 3}
CalibrationTyped == {NumberToString(100, 100), NumberToString(0, 1)}
SmoothingTyped == {NumberToString(30, 100)}
ThresholdTyped == {NumberToString(240, 1)}
PresetChoices == {"custom", "Kodak Portra 400", "Fujifilm Velvia 50"}
BrightnessSamples == {4, 5, 250, 251}

MaxTicks == 2
MaxEdits == 2

----------------------------------------------------------------------------
(* The React component App *)

NoCall == [fn |-> "none", b |-> 0, iso |-> 0, comp |-> 0, cf |-> Fin(0), chosen |-> 0,
           ret |-> <<>>]
NoFeed == [start |-> <<>>, prev |-> <<>>, E |-> Fin(0), alpha |-> Fin(0), n |-> 0]

EmptyStorage ==
  [iso |-> NullString, compensation |-> NullString, priorityMode |-> NullString,
   calibrationFactor |-> NullString, overExposureThreshold |-> NullString,
   underExposureThreshold |-> NullString]

\* What a previous session that ended with ISO 400, +1 EV, shutter priority
\* and the Kodak Portra 400 calibration left behind.
PreviousSessionStorage ==
  [iso |-> NumberToString(400, 1), compensation |-> NumberToString(10, 10),
   priorityMode |-> TextString("shutter"),
   calibrationFactor |-> NumberToString(92, 100),
   overExposureThreshold |-> NumberToString(250, 1),
   underExposureThreshold |-> NumberToString(10, 1)]

\* No tick has run yet.  path is the branch the last tick took,
\* histogramThrew whether its drawHistogram threw, closureLocked the aeLocked
\* its closure held and stateLocked the aeLocked of the state it ran in.
NoTick == [path |-> "none", histogramThrew |-> FALSE,
           closureLocked |-> FALSE, stateLocked |-> FALSE]

\* useState / useRef initial values, with the storage a previous session left.
InitApp(storages) ==
  /\ step = "permission"
  /\ stream = FALSE
  /\ iso = 100
  /\ compensation = 0
  /\ priorityMode = "aperture"
  /\ calibrationFactor = Fin(85)
  /\ meteringMode = "center"
  /\ smoothingFactor = Fin(10)
  /\ colorChannelMode = "combined"
  /\ filmPreset = "custom"
  /\ aeLocked = FALSE
  /\ lockedEVRef = <<>>
  /\ chosenAperture = 28
  /\ chosenShutter = 125
  /\ overExposureThreshold = Fin(DEFAULT_OVEREXPOSURE_THRESHOLD)
  /\ underExposureThreshold = Fin(DEFAULT_UNDEREXPOSURE_THRESHOLD)
  /\ exposure = [shutterSpeed |-> 0, aperture |-> 0, effectiveEV |-> Fin(0),
                 smoothedEV |-> Fin(0), evDifference |-> Fin(0)]
  /\ exposureWarning = ""
  /\ error = ""
  /\ smoothedEVRef = <<>>
  /\ localStorage \in storages
  /\ mounted = FALSE
  /\ avgBrightness = 0
  /\ renderedAeLocked = FALSE
  /\ tickOutcome = NoTick
  /\ budget = [ticks |-> 0, edits |-> 0]

Init ==
  /\ InitApp({EmptyStorage, PreviousSessionStorage})
  /\ call = NoCall
  /\ feed = NoFeed

\* The save effect: localStorage.setItem(key, value) for the six keys.
SavedSettings(i, c, p, f, o, u) ==
  [iso |-> NumberToString(i, 1), compensation |-> NumberToString(c, 10),
   priorityMode |-> TextString(p), calibrationFactor |-> FToString(f, 100),
   overExposureThreshold |-> FToString(o, 1),
   underExposureThreshold |-> FToString(u, 1)]

\* The save effect runs after every render in which one of its dependencies
\* changed: it closes every handler below.
SaveEffect ==
  localStorage' = SavedSettings(iso', compensation', priorityMode', calibrationFactor',
                                overExposureThreshold', underExposureThreshold')

\* The restore effect, reading the storage st.
RestoreEffect(st) ==
  LET storedIso == parseInt(st.iso)
      storedCompensation == parseFloat(st.compensation, 10)
      storedCalibration == parseFloat(st.calibrationFactor, 100)
      storedOver == parseInt(st.overExposureThreshold)
      storedUnder == parseInt(st.underExposureThreshold)
  IN /\ iso' = IF ~IsNaN(storedIso) THEN storedIso.v ELSE iso
     /\ compensation' = IF ~IsNaN(storedCompensation) THEN storedCompensation.v
                        ELSE compensation
     /\ priorityMode' = IF st.priorityMode.t = "text" /\ st.priorityMode.s # ""
                        THEN st.priorityMode.s ELSE priorityMode
     /\ calibrationFactor' = IF ~IsNaN(storedCalibration) THEN storedCalibration
                             ELSE calibrationFactor
     /\ overExposureThreshold' = IF ~IsNaN(storedOver) THEN storedOver
                                 ELSE overExposureThreshold
     /\ underExposureThreshold' = IF ~IsNaN(storedUnder) THEN storedUnder
                                  ELSE underExposureThreshold

readings == <<exposure, exposureWarning, error, smoothedEVRef, avgBrightness,
              tickOutcome>>
lock == <<aeLocked, lockedEVRef, renderedAeLocked>>
others == <<call, feed>>

\* Mount: the effects run in the order they are declared, the save effect
\* (with the initial state) before the restore effect; the state the restore
\* effect sets is rendered and saved again.
Mount ==
  /\ ~mounted
  /\ mounted' = TRUE
  /\ RestoreEffect(SavedSettings(iso, compensation, priorityMode, calibrationFactor,
                                 overExposureThreshold, underExposureThreshold))
  /\ SaveEffect
  /\ UNCHANGED <<step, stream, meteringMode, smoothingFactor, colorChannelMode,
                 filmPreset, chosenAperture, chosenShutter, budget>>
  /\ UNCHANGED <<readings, lock, others>>

\* requestCamera, when getUserMedia resolves.
RequestCamera ==
  /\ mounted /\ step = "permission"
  /\ stream' = TRUE
  /\ step' = "iso"
  /\ UNCHANGED <<iso, compensation, priorityMode, calibrationFactor, meteringMode,
                 smoothingFactor, colorChannelMode, filmPreset, chosenAperture,
                 chosenShutter, overExposureThreshold, underExposureThreshold,
                 localStorage, mounted, budget>>
  /\ UNCHANGED <<readings, lock, others>>

\* An onChange handler of the settings step; a change event carries a value
\* other than the one shown, so the handlers below change their state.
CanEdit == mounted /\ step = "iso" /\ budget.edits < MaxEdits
Edited == budget' = [budget EXCEPT !.edits = budget.edits + 1]

SetIso ==
  /\ CanEdit
  /\ \E v \in IsoChoices \ {iso} : iso' = parseInt(NumberToString(v, 1)).v
  /\ Edited
  /\ UNCHANGED <<step, stream, compensation, priorityMode, calibrationFactor,
                 meteringMode, smoothingFactor, colorChannelMode, filmPreset,
                 chosenAperture, chosenShutter, overExposureThreshold,
                 underExposureThreshold, mounted>>
  /\ SaveEffect
  /\ UNCHANGED <<readings, lock, others>>

SetCompensation ==
  /\ CanEdit
  /\ \E v \in CompensationChoices \ {compensation} :
       compensation' = parseFloat(NumberToString(v, 10), 10).v
  /\ Edited
  /\ UNCHANGED <<step, stream, iso, priorityMode, calibrationFactor, meteringMode,
                 smoothingFactor, colorChannelMode, filmPreset, chosenAperture,
                 chosenShutter, overExposureThreshold, underExposureThreshold,
                 mounted>>
  /\ SaveEffect
  /\ UNCHANGED <<readings, lock, others>>

SetCalibrationFactor ==
  /\ CanEdit
  /\ \E txt \in CalibrationTyped \ {FToString(calibrationFactor, 100)} :
       calibrationFactor' = parseFloat(txt, 100)
  /\ Edited
  /\ UNCHANGED <<step, stream, iso, compensation, priorityMode, meteringMode,
                 smoothingFactor, colorChannelMode, filmPreset, chosenAperture,
                 chosenShutter, overExposureThreshold, underExposureThreshold,
                 mounted>>
  /\ SaveEffect
  /\ UNCHANGED <<readings, lock, others>>

SetPriorityMode ==
  /\ CanEdit
  /\ \E v \in {"shutter", "aperture"} \ {priorityMode} : priorityMode' = v
  /\ Edited
  /\ UNCHANGED <<step, stream, iso, compensation, calibrationFactor, meteringMode,
                 smoothingFactor, colorChannelMode, filmPreset, chosenAperture,
                 chosenShutter, overExposureThreshold, underExposureThreshold,
                 mounted>>
  /\ SaveEffect
  /\ UNCHANGED <<readings, lock, others>>

\* The select is rendered in aperture priority only.
SetChosenAperture ==
  /\ CanEdit /\ priorityMode = "aperture"
  /\ \E v \in Range(ApertureOptions) \ {chosenAperture} :
       chosenAperture' = parseFloat(NumberToString(v, 10), 10).v
  /\ Edited
  /\ UNCHANGED <<step, stream, iso, compensation, priorityMode, calibrationFactor,
                 meteringMode, smoothingFactor, colorChannelMode, filmPreset,
                 chosenShutter, overExposureThreshold, underExposureThreshold,
                 mounted, localStorage>>
  /\ UNCHANGED <<readings, lock, others>>

\* The select is rendered in shutter priority only.
SetChosenShutter ==
  /\ CanEdit /\ priorityMode = "shutter"
  /\ \E v \in Range(ShutterOptions) \ {chosenShutter} :
       chosenShutter' = parseFloatReciprocal(NumberToString(1, v)).v
  /\ Edited
  /\ UNCHANGED <<step, stream, iso, compensation, priorityMode, calibrationFactor,
                 meteringMode, smoothingFactor, colorChannelMode, filmPreset,
                 chosenAperture, overExposureThreshold, underExposureThreshold,
                 mounted, localStorage>>
  /\ UNCHANGED <<readings, lock, others>>

SetMeteringMode ==
  /\ CanEdit
  /\ \E v \in {"center", "spot"} \ {meteringMode} : meteringMode' = v
  /\ Edited
  /\ UNCHANGED <<step, stream, iso, compensation, priorityMode, calibrationFactor,
                 smoothingFactor, colorChannelMode, filmPreset, chosenAperture,
                 chosenShutter, overExposureThreshold, underExposureThreshold,
                 mounted>>
  /\ SaveEffect
  /\ UNCHANGED <<readings, lock, others>>

SetColorChannelMode ==
  /\ CanEdit
  /\ \E v \in {"combined", "separate"} \ {colorChannelMode} : colorChannelMode' = v
  /\ Edited
  /\ UNCHANGED <<step, stream, iso, compensation, priorityMode, calibrationFactor,
                 meteringMode, smoothingFactor, filmPreset, chosenAperture,
                 chosenShutter, overExposureThreshold, underExposureThreshold,
                 mounted, localStorage>>
  /\ UNCHANGED <<readings, lock, others>>

\* Film Preset onChange.
SelectFilmPreset ==
  /\ CanEdit
  /\ \E name \in PresetChoices \ {filmPreset} :
       /\ filmPreset' = name
       /\ IF name # "custom"
          THEN /\ calibrationFactor' = filmPresets[name].calibrationFactor
               /\ overExposureThreshold' = Fin(filmPresets[name].overExposureThreshold)
               /\ underExposureThreshold' = Fin(filmPresets[name].underExposureThreshold)
               /\ compensation' = filmPresets[name].recommendedCompensation
          ELSE UNCHANGED <<calibrationFactor, overExposureThreshold,
                           underExposureThreshold, compensation>>
  /\ Edited
  /\ UNCHANGED <<step, stream, iso, priorityMode, meteringMode, smoothingFactor,
                 colorChannelMode, chosenAperture, chosenShutter, mounted>>
  /\ SaveEffect
  /\ UNCHANGED <<readings, lock, others>>

SetSmoothingFactor ==
  /\ CanEdit
  /\ \E txt \in SmoothingTyped \ {FToString(smoothingFactor, 100)} :
       smoothingFactor' = parseFloat(txt, 100)
  /\ Edited
  /\ UNCHANGED <<step, stream, iso, compensation, priorityMode, calibrationFactor,
                 meteringMode, colorChannelMode, filmPreset, chosenAperture,
                 chosenShutter, overExposureThreshold, underExposureThreshold,
                 mounted, localStorage>>
  /\ UNCHANGED <<readings, lock, others>>

SetOverExposureThreshold ==
  /\ CanEdit
  /\ \E txt \in ThresholdTyped \ {FToString(overExposureThreshold, 1)} :
       overExposureThreshold' = parseInt(txt)
  /\ Edited
  /\ UNCHANGED <<step, stream, iso, compensation, priorityMode, calibrationFactor,
                 meteringMode, smoothingFactor, colorChannelMode, filmPreset,
                 chosenAperture, chosenShutter, underExposureThreshold, mounted>>
  /\ SaveEffect
  /\ UNCHANGED <<readings, lock, others>>

SetUnderExposureThreshold ==
  /\ CanEdit
  /\ \E txt \in ThresholdTyped \ {FToString(underExposureThreshold, 1)} :
       underExposureThreshold' = parseInt(txt)
  /\ Edited
  /\ UNCHANGED <<step, stream, iso, compensation, priorityMode, calibrationFactor,
                 meteringMode, smoothingFactor, colorChannelMode, filmPreset,
                 chosenAperture, chosenShutter, overExposureThreshold, mounted>>
  /\ SaveEffect
  /\ UNCHANGED <<readings, lock, others>>

config == <<iso, compensation, priorityMode, calibrationFactor, meteringMode,
            smoothingFactor, colorChannelMode, filmPreset, chosenAperture,
            chosenShutter, overExposureThreshold, underExposureThreshold>>

\* Confirm & Start Metering.
StartMetering ==
  /\ mounted /\ step = "iso"
  /\ step' = "meter"
  /\ UNCHANGED <<stream, config, localStorage, mounted, budget>>
  /\ UNCHANGED <<readings, lock, others>>

BackToSettings_releasesLock ==
  /\ mounted /\ step = "meter"
  /\ step' = "iso"
  /\ aeLocked' = FALSE /\ lockedEVRef' = <<>> /\ renderedAeLocked' = FALSE
  /\ UNCHANGED <<stream, config, localStorage, mounted, budget>>
  /\ UNCHANGED <<readings, others>>

\* Back, and Adjust Settings of the error message.
BackToSettings ==
  /\ mounted /\ step = "meter"
  /\ step' = "iso"
  /\ UNCHANGED <<stream, config, localStorage, mounted, budget>>
  /\ UNCHANGED <<readings, lock, others>>

AeLockToggle_readsState ==
  /\ mounted /\ step = "meter"
  /\ IF aeLocked
     THEN aeLocked' = FALSE /\ lockedEVRef' = <<>>
     ELSE lockedEVRef' = <<exposure.effectiveEV>> /\ aeLocked' = TRUE
  /\ UNCHANGED <<step, stream, config, localStorage, mounted, budget>>
  /\ UNCHANGED <<readings, others>>

\* The body of handleAeLock, reading the aeLocked of its render: the ref is
\* written at once, the state is set.
AeLockToggle ==
  /\ mounted /\ step = "meter"
  /\ IF renderedAeLocked
     THEN aeLocked' = FALSE /\ lockedEVRef' = <<>>
     ELSE lockedEVRef' = <<exposure.effectiveEV>> /\ aeLocked' = TRUE
  /\ UNCHANGED <<step, stream, config, localStorage, mounted, budget>>
  /\ UNCHANGED <<readings, others>>

\* A click on the AE Lock button: the render and the tick effect it causes
\* (aeLocked is a dependency of the effect) are flushed before the event
\* ends, so the new interval callback holds the new aeLocked.
handleAeLock ==
  /\ AeLockToggle
  /\ renderedAeLocked' = aeLocked'

\* handleAeLock called while the render it causes is still pending: the
\* interval callback of the previous render stays in place.
handleAeLockDeferred ==
  /\ AeLockToggle
  /\ UNCHANGED renderedAeLocked

\* The pending render commits: the tick effect is cleaned up and run again.
TickEffect ==
  /\ mounted /\ renderedAeLocked # aeLocked
  /\ renderedAeLocked' = aeLocked
  /\ UNCHANGED <<step, stream, config, localStorage, mounted, budget>>
  /\ UNCHANGED <<readings, others, aeLocked, lockedEVRef>>

----------------------------------------------------------------------------
(* The metering tick (the setInterval callback) *)

FGe(a, b) == FLe(b, a)

exposureWarningOf_strictBounds(evDifference) ==
  IF FLt(evDifference, Fin(0 - EVUnit))
  THEN "Severely underexposed, increase aperture or ISO significantly."
  ELSE IF FLt(evDifference, Fin(0 - 6 * (EVUnit \div 10)))
  THEN "Moderately underexposed, consider increasing aperture or ISO."
  ELSE IF FLt(evDifference, Fin(0 - 3 * (EVUnit \div 10)))
  THEN "Slightly underexposed, fine-tune settings."
  ELSE IF FLt(Fin(EVUnit), evDifference)
  THEN "Severely overexposed, reduce aperture or ISO significantly."
  ELSE IF FLt(Fin(6 * (EVUnit \div 10)), evDifference)
  THEN "Moderately overexposed, consider reducing aperture or ISO."
  ELSE IF FLt(Fin(3 * (EVUnit \div 10)), evDifference)
  THEN "Slightly overexposed, fine-tune settings."
  ELSE ""

\* The exposure warning bands on evDifference.
exposureWarningOf(evDifference) ==
  IF FLe(evDifference, Fin(0 - EVUnit)) THEN "Severely underexposed, increase aperture or ISO significantly."
  ELSE IF FLe(evDifference, Fin(0 - 6 * (EVUnit \div 10))) THEN "Moderately underexposed, consider increasing aperture or ISO."
  ELSE IF FLe(evDifference, Fin(0 - 3 * (EVUnit \div 10))) THEN "Slightly underexposed, fine-tune settings."
  ELSE IF FGe(evDifference, Fin(EVUnit)) THEN "Severely overexposed, reduce aperture or ISO significantly."
  ELSE IF FGe(evDifference, Fin(6 * (EVUnit \div 10))) THEN "Moderately overexposed, consider reducing aperture or ISO."
  ELSE IF FGe(evDifference, Fin(3 * (EVUnit \div 10))) THEN "Slightly overexposed, fine-tune settings."
  ELSE ""

\* let currentEV = exp.effectiveEV, read before the AE-Lock override.
currentEVOf_afterLockOverride(exp, locked, lockedEV) ==
  IF locked /\ lockedEV # <<>> THEN lockedEV[1] ELSE exp.effectiveEV

currentEVOf(exp, locked, lockedEV) == exp.effectiveEV

\* A reading field that holds null.
NullEV == [k |-> "null", v |-> 0]

aeLockOverride_flagOnly(exp, locked, lockedEV) ==
  IF locked THEN (IF lockedEV # <<>> THEN lockedEV[1] ELSE NullEV)
  ELSE exp.effectiveEV

\* if (aeLocked && lockedEVRef.current !== null) exp.effectiveEV = lockedEVRef.current
aeLockOverride(exp, locked, lockedEV) ==
  IF locked /\ lockedEV # <<>> THEN lockedEV[1] ELSE exp.effectiveEV

tooDark_inclusive(b) == b <= 5

\* if (avgBrightness < 5) ... else if (avgBrightness > 250) ...
tooDark(b) == b < 5
tooBright(b) == b > 250

\* What a tick meets: the frame is not ready (the if of lines 498-506 is
\* false), computeBrightness throws, or it returns b and drawHistogram then
\* returns or throws.
TickFrames ==
  {[ready |-> FALSE, threw |-> FALSE, b |-> 0, histogramThrew |-> FALSE],
   [ready |-> TRUE, threw |-> TRUE, b |-> 0, histogramThrew |-> FALSE]}
  \cup {[ready |-> TRUE, threw |-> FALSE, b |-> b, histogramThrew |-> h] :
          b \in BrightnessSamples, h \in BOOLEAN}

\* The else branch of the brightness guards: resolver, smoother, AE-Lock
\* override, setExposure and the warning bands.
Metered(b) ==
  LET exp == IF priorityMode = "aperture"
             THEN calculateExposureAperturePriority(
                    b, iso, compensation, chosenAperture, calibrationFactor)
             ELSE calculateExposureShutterPriority(
                    b, iso, compensation, chosenShutter, calibrationFactor)
      smoothed == smoothStep(smoothedEVRef,
                             currentEVOf(exp, renderedAeLocked, lockedEVRef),
                             smoothingFactor)
  IN /\ smoothedEVRef' = smoothed
     /\ exposure' =
          [shutterSpeed |-> exp.shutterSpeed,
           aperture |-> exp.aperture,
           effectiveEV |-> aeLockOverride(exp, renderedAeLocked, lockedEVRef),
           smoothedEV |-> smoothed[1],
           evDifference |-> exp.evDifference]
     /\ exposureWarning' = exposureWarningOf(exp.evDifference)

TickLeaves_clearsLock ==
  /\ UNCHANGED <<step, stream, config, localStorage, mounted>>
  /\ UNCHANGED <<aeLocked, renderedAeLocked, others>>
  /\ lockedEVRef' = <<>>

\* What the interval callback has no assignment to: it calls setError,
\* setExposure and setExposureWarning, writes smoothedEVRef.current and
\* draws on the canvases, and only reads everything else.
TickLeaves ==
  /\ UNCHANGED <<step, stream, config, localStorage, mounted>>
  /\ UNCHANGED <<lock, others>>

\* One run of the interval callback.  The state updates of one callback are
\* batched: of several setError calls the last one stands.
Tick ==
  /\ mounted /\ step = "meter" /\ stream
  /\ budget.ticks < MaxTicks
  /\ budget' = [budget EXCEPT !.ticks = budget.ticks + 1]
  /\ \E f \in TickFrames :
       IF ~f.ready
       THEN /\ tickOutcome' = [path |-> "notReady", histogramThrew |-> FALSE,
                               closureLocked |-> renderedAeLocked, stateLocked |-> aeLocked]
            /\ UNCHANGED <<exposure, exposureWarning, error, smoothedEVRef,
                           avgBrightness>>
       ELSE IF f.threw
       THEN /\ tickOutcome' = [path |-> "computeThrew", histogramThrew |-> FALSE,
                               closureLocked |-> renderedAeLocked, stateLocked |-> aeLocked]
            /\ error' = "Measurement error"
            /\ UNCHANGED <<exposure, exposureWarning, smoothedEVRef, avgBrightness>>
       ELSE /\ avgBrightness' = f.b
            /\ tickOutcome' =
                 [path |-> IF tooDark(f.b) THEN "dark"
                           ELSE IF tooBright(f.b) THEN "bright" ELSE "metered",
                  histogramThrew |-> f.histogramThrew,
                  closureLocked |-> renderedAeLocked, stateLocked |-> aeLocked]
            /\ error' = IF f.histogramThrew THEN "Measurement error"
                        ELSE IF tooDark(f.b)
                        THEN "Extremely dark, increase ISO/aperture."
                        ELSE IF tooBright(f.b)
                        THEN "Extremely bright! Reduce ISO or aperture."
                        ELSE ""
            /\ IF tooDark(f.b) \/ tooBright(f.b)
               THEN UNCHANGED <<exposure, exposureWarning, smoothedEVRef>>
               ELSE Metered(f.b)
  /\ TickLeaves

Next ==
  \/ Mount
  \/ RequestCamera
  \/ SetIso
  \/ SetCompensation
  \/ SetCalibrationFactor
  \/ SetPriorityMode
  \/ SetChosenAperture
  \/ SetChosenShutter
  \/ SetMeteringMode
  \/ SetColorChannelMode
  \/ SelectFilmPreset
  \/ SetSmoothingFactor
  \/ SetOverExposureThreshold
  \/ SetUnderExposureThreshold
  \/ StartMetering
  \/ BackToSettings
  \/ handleAeLock
  \/ Tick

app == <<step, stream, config, aeLocked, lockedEVRef, exposure, exposureWarning, error,
         smoothedEVRef, localStorage, mounted, avgBrightness, renderedAeLocked,
         tickOutcome, budget>>

\* UNCHANGED for the specifications that do not run the application.
AppIdle == UNCHANGED app

----------------------------------------------------------------------------
(* SpecCalc: the pure functions of the engine, each applied once to        *)
(* arguments drawn from the sets below.  Brightness -1 is outside what     *)
(* computeBrightness returns but inside the calculator's domain; aperture  *)
(* f/3.5 and shutter 1/2000 s are values missing from the candidate table. *)

BrightnessInputs == {-1, 0, 1, 5, 64, 128, 129, 250, 255}
IsoInputs == {50, 100, 125, 400, 3200}
CompensationInputs == {-30, -3, 0, 3, 7, 30}
CalibrationInputs == {Fin(0), Fin(50), Fin(85), Fin(100), Fin(150), NaN}
ShutterInputs == Range(standardShutterSpeeds) \cup {2000}
ApertureInputs == Range(standardApertures) \cup {35}

CallArgs(fn, chosen) ==
  {[fn |-> fn, b |-> b, iso |-> i, comp |-> c, cf |-> f, chosen |-> ch, ret |-> <<>>] :
     b \in BrightnessInputs, i \in IsoInputs, c \in CompensationInputs,
     f \in CalibrationInputs, ch \in chosen}

InitCalc ==
  /\ call \in CallArgs("ev", {0}) \cup CallArgs("shutter", ShutterInputs)
                \cup CallArgs("aperture", ApertureInputs)
  /\ feed = NoFeed
  /\ InitApp({EmptyStorage})

CallEffectiveEV ==
  /\ call.fn = "ev" /\ call.ret = <<>>
  /\ call' = [call EXCEPT !.ret =
                <<calculateEffectiveEV(call.b, call.iso, call.comp, call.cf)>>]
  /\ UNCHANGED feed
  /\ AppIdle

CallShutterPriority ==
  /\ call.fn = "shutter" /\ call.ret = <<>>
  /\ call' = [call EXCEPT !.ret =
                <<calculateExposureShutterPriority(call.b, call.iso, call.comp,
                                                   call.chosen, call.cf)>>]
  /\ UNCHANGED feed
  /\ AppIdle

CallAperturePriority ==
  /\ call.fn = "aperture" /\ call.ret = <<>>
  /\ call' = [call EXCEPT !.ret =
                <<calculateExposureAperturePriority(call.b, call.iso, call.comp,
                                                    call.chosen, call.cf)>>]
  /\ UNCHANGED feed
  /\ AppIdle

NextCalc == CallEffectiveEV \/ CallShutterPriority \/ CallAperturePriority

----------------------------------------------------------------------------
(* SpecSmoother: the smoother alone, fed the same effectiveEV E on every   *)
(* tick, from an unset or a set state.                                     *)

MaxFeed == 60

SmootherStarts == {<<>>, <<Fin(7 * EVUnit)>>, <<Fin(8 * EVUnit)>>, <<Fin(12 * EVUnit)>>,
                   <<Fin(7 * EVUnit + 100)>>}
ConstantEVs == {Fin(7 * EVUnit), Fin(0 - 2 * EVUnit), Fin(16 * EVUnit)}
SmoothingInputs == {Fin(5), Fin(10), Fin(30), Fin(50), Fin(90)}

InitSmoother ==
  /\ call = NoCall
  /\ InitApp({EmptyStorage})
  /\ feed \in {[start |-> s, prev |-> s, E |-> e, alpha |-> a, n |-> 0] :
                 s \in SmootherStarts, e \in ConstantEVs, a \in SmoothingInputs}

FeedTick ==
  /\ feed.n < MaxFeed
  /\ feed' = [feed EXCEPT !.prev = smoothStep(feed.prev, feed.E, feed.alpha),
                          !.n = feed.n + 1]
  /\ UNCHANGED call
  /\ AppIdle

NextSmoother == FeedTick

----------------------------------------------------------------------------
(* SpecClassifier: the warning bands of the tick applied to one            *)
(* evDifference, every hundredth of an EV from -1.2 to 1.2, one micro-EV   *)
(* either side of each band boundary, and two far values.                  *)

BandBoundaries == {0 - EVUnit, 0 - 6 * (EVUnit \div 10), 0 - 3 * (EVUnit \div 10),
                   3 * (EVUnit \div 10), 6 * (EVUnit \div 10), EVUnit}

EvDifferenceInputs ==
  {Fin(k * (EVUnit \div 100)) : k \in -120..120}
    \cup {Fin(b + e) : b \in BandBoundaries, e \in {-1, 1}}
    \cup {Fin(0 - 17 * EVUnit), Fin(17 * EVUnit)}

InitClassifier ==
  /\ call \in {[fn |-> "classify", evDifference |-> d, ret |-> <<>>] :
                 d \in EvDifferenceInputs}
  /\ feed = NoFeed
  /\ InitApp({EmptyStorage})

CallClassifier ==
  /\ call.fn = "classify" /\ call.ret = <<>>
  /\ call' = [call EXCEPT !.ret = <<exposureWarningOf(call.evDifference)>>]
  /\ UNCHANGED feed
  /\ AppIdle

NextClassifier == CallClassifier

----------------------------------------------------------------------------
(* SpecHistogram: drawHistogram applied to one frame.  A frame is the      *)
(* sequence of its pixels in buffer order (four bytes each in data).  The  *)
(* variant of src/unnamed/part_001 counts a combined histogram or one per  *)
(* channel; the variant of src/src/App.js counts the combined one and, in  *)
(* its requestAnimationFrame callback, places the zone boundaries.         *)

\* Math.abs on integers
Abs(x) == IF x < 0 THEN 0 - x ELSE x

Min(a, b) == IF a < b THEN a ELSE b

\* Math.pow(2, k / 10) for k = 0..9, in units of 1e-5.
PowUnit == 100000
Pow2Tenths == <<100000, 107177, 114870, 123114, 131951, 141421, 151572, 162450,
                174110, 186607>>

\* Math.round(brightness * Math.pow(2, compensation)), compensation in
\* tenths of an EV.
RoundAdjusted(brightness, comp) ==
  LET e == comp \div 10
      scaled == brightness * Pow2Tenths[(comp % 10) + 1]
      adjusted == IF e >= 0 THEN scaled * Pow2(e) ELSE scaled \div Pow2(0 - e)
  IN (adjusted + PowUnit \div 2) \div PowUnit

adjustedBrightnessOf_noClamp(brightness, comp) == RoundAdjusted(brightness, comp)

\* Math.min(Math.round(adjusted), 255)
adjustedBrightnessOf(brightness, comp) == Min(RoundAdjusted(brightness, comp), 255)

\* Math.floor(0.299 * r + 0.587 * g + 0.114 * b).  When the exact sum is a
\* whole number the sum of doubles may fall just short of it; px.ulp is -1
\* for a pixel where it does (128,128,128 gives 127) and 0 otherwise.
lumaOf(px) == ((299 * px.r + 587 * px.g + 114 * px.b) \div 1000) + px.ulp

\* The bin a sampled pixel increments in the histogram of a channel.
BinIndex(px, comp, channel) ==
  CASE channel = "combined" -> adjustedBrightnessOf(lumaOf(px), comp)
    [] channel = "red" -> px.r
    [] channel = "green" -> px.g
    [] channel = "blue" -> px.b

\* new Array(256).fill(0)
EmptyHistogram == [i \in 0..255 |-> 0]

\* histogram[index]++ : an index that is no slot of the array adds no count
\* to the 256 bins.
Increment(histogram, index) ==
  IF index \in DOMAIN histogram THEN [histogram EXCEPT ![index] = @ + 1]
  ELSE histogram

\* The loop over data: pixel k (from 1) is sampled when (i / 4) % 2 === 0.
RECURSIVE histogramOf(_, _, _, _, _)
histogramOf(frame, k, comp, channel, histogram) ==
  IF k > Len(frame) THEN histogram
  ELSE histogramOf(frame, k + 1, comp, channel,
                   IF (k - 1) % 2 = 0
                   THEN Increment(histogram, BinIndex(frame[k], comp, channel))
                   ELSE histogram)

Channels(mode) == IF mode = "combined" THEN {"combined"} ELSE {"red", "green", "blue"}

zoneNumbers == <<2, 3, 4, 5, 6, 7>>

\* referenceGray * Math.pow(2, zone - 5)
computedBoundary(zone) ==
  IF zone >= 5 THEN referenceGray * Pow2(zone - 5)
  ELSE referenceGray \div Pow2(5 - zone)

zoneClips_afterClamp(b) == Min(b, 255) > 255

\* if (b > 255) { clipped = true; return 255; }
zoneClips(b) == b > 255

\* computedBoundaries.map(...) with its clipped flag; clippedBy collects the
\* zones whose boundary set the flag.
RECURSIVE zoneBoundaries(_, _)
zoneBoundaries(i, acc) ==
  IF i > Len(zoneNumbers) THEN acc
  ELSE LET b == computedBoundary(zoneNumbers[i])
       IN zoneBoundaries(i + 1,
            IF zoneClips(b)
            THEN [clipped |-> TRUE,
                  clippedBy |-> acc.clippedBy \cup {zoneNumbers[i]},
                  boundaries |-> Append(acc.boundaries, 255)]
            ELSE [acc EXCEPT !.boundaries = Append(acc.boundaries, b)])

NoZones == [clipped |-> FALSE, clippedBy |-> {}, boundaries |-> <<>>]

\* for (let i = 1; i < zoneNumbers.length; i++)
\*   if (computedBoundaries[i] <= 255) { line at xBoundaries[i]; label Z... }
\* The JavaScript index i is the index i + 1 here; a marker is kept as its
\* zone and the brightness its line stands at.
RECURSIVE zoneMarkers(_, _, _)
zoneMarkers(i, boundaries, acc) ==
  IF i > Len(zoneNumbers) THEN acc
  ELSE zoneMarkers(i + 1, boundaries,
         IF computedBoundary(zoneNumbers[i]) <= 255
         THEN Append(acc, [zone |-> zoneNumbers[i], brightness |-> boundaries[i]])
         ELSE acc)

MaxPixels == 3

Pixels == {[r |-> 0, g |-> 0, b |-> 0, ulp |-> 0],
           [r |-> 255, g |-> 255, b |-> 255, ulp |-> 0],
           [r |-> 128, g |-> 128, b |-> 128, ulp |-> 0 - 1],
           [r |-> 255, g |-> 0, b |-> 0, ulp |-> 0],
           [r |-> 12, g |-> 200, b |-> 31, ulp |-> 0]}

Frames == UNION {[1..n -> Pixels] : n \in 0..MaxPixels}

\* Compensation steps and the 0.2 EV of a film preset, in tenths.
HistogramCompensations == {-30, -3, 0, 2, 7, 30}

InitHistogram ==
  /\ call \in {[fn |-> "histogram", variant |-> v.variant, mode |-> v.mode,
                 frame |-> f, comp |-> c, pc |-> "start",
                 histograms |-> <<>>, zones |-> NoZones, markers |-> <<>>] :
                 v \in {[variant |-> "part_001", mode |-> "combined"],
                        [variant |-> "part_001", mode |-> "separate"],
                        [variant |-> "App.js", mode |-> "combined"]},
                 f \in Frames, c \in HistogramCompensations}
  /\ feed = NoFeed
  /\ InitApp({EmptyStorage})

\* drawHistogram up to the drawing of the bars.
DrawHistogram ==
  /\ call.fn = "histogram" /\ call.pc = "start"
  /\ call' = [call EXCEPT
                !.histograms = [ch \in Channels(call.mode) |->
                                  histogramOf(call.frame, 1, call.comp, ch,
                                              EmptyHistogram)],
                !.pc = IF call.variant = "App.js" THEN "rAF" ELSE "done"]
  /\ UNCHANGED feed
  /\ AppIdle

\* The requestAnimationFrame callback of the src/src/App.js variant.
AnimationFrame ==
  /\ call.fn = "histogram" /\ call.pc = "rAF"
  /\ call' = [call EXCEPT
                !.zones = zoneBoundaries(1, NoZones),
                !.markers = zoneMarkers(2, zoneBoundaries(1, NoZones).boundaries, <<>>),
                !.pc = "done"]
  /\ UNCHANGED feed
  /\ AppIdle

NextHistogram == DrawHistogram \/ AnimationFrame

----------------------------------------------------------------------------
(* SpecTimer: the life of the periodic metering timer.  The tick effect is *)
(* run again, after the cleanup of its previous run, whenever one of its   *)
(* dependencies changed.  In src/unnamed/part_001 the effect returns a     *)
(* cleanup that clears the intervalId of its own run, and only when it     *)
(* started a timer; in src/unnamed/part_003 the id is kept in intervalRef  *)
(* and the cleanup, always returned, clears whatever the ref holds.        *)
(* active is the browser's list of active timers.                          *)

MaxIntervals == 3
MaxTimerTicks == 2

InitTimer ==
  /\ call \in {[fn |-> "timer", variant |-> v, step |-> "permission",
                 stream |-> FALSE, iso |-> 100, aeLocked |-> FALSE,
                 active |-> {}, intervalRef |-> 0, cleanup |-> <<>>,
                 nextId |-> 1, ticks |-> 0, lastTick |-> <<>>] :
                 v \in {"part_001", "part_003"}}
  /\ feed = NoFeed
  /\ InitApp({EmptyStorage})

effectCleanup_noClear(c) == c.active

\* The cleanup of the previous run of the effect: the timers left active.
effectCleanup(c) ==
  IF c.variant = "part_001"
  THEN IF c.cleanup # <<>> THEN c.active \ {c.cleanup[1]} ELSE c.active
  ELSE IF c.intervalRef # 0 THEN c.active \ {c.intervalRef} ELSE c.active

\* if (step === 'meter' && videoRef.current && stream): the video element
\* is rendered on the meter step, so videoRef.current is set there.
startsTimer(c) == c.step = "meter" /\ c.stream

\* The render with the state c commits: cleanup of the previous run, then
\* the effect body.
runTickEffect(c) ==
  IF startsTimer(c)
  THEN [c EXCEPT !.active = effectCleanup(c) \cup {c.nextId},
                 !.cleanup = IF c.variant = "part_001" THEN <<c.nextId>> ELSE <<>>,
                 !.intervalRef = IF c.variant = "part_003" THEN c.nextId
                                 ELSE c.intervalRef,
                 !.nextId = c.nextId + 1]
  ELSE [c EXCEPT !.active = effectCleanup(c), !.cleanup = <<>>]

TimerStep(c) ==
  /\ call.fn = "timer"
  /\ startsTimer(c) => call.nextId <= MaxIntervals
  /\ call' = runTickEffect(c)
  /\ UNCHANGED feed
  /\ AppIdle

\* requestCamera: setStream(mediaStream); setStep('iso').
TimerRequestCamera ==
  /\ call.step = "permission"
  /\ TimerStep([call EXCEPT !.stream = TRUE, !.step = "iso"])

\* Confirm & Start Metering.
TimerStartMetering ==
  /\ call.step = "iso"
  /\ TimerStep([call EXCEPT !.step = "meter"])

\* Back / Adjust Settings.
TimerBackToSettings ==
  /\ call.step = "meter"
  /\ TimerStep([call EXCEPT !.step = "iso"])

\* A setting that is a dependency of the effect changes on the settings step.
TimerSetIso ==
  /\ call.step = "iso"
  /\ \E v \in IsoChoices \ {call.iso} : TimerStep([call EXCEPT !.iso = v])

\* handleAeLock on the meter step: aeLocked is a dependency of the effect
\* of src/unnamed/part_001 (src/unnamed/part_003 has no AE lock).
TimerAeLock ==
  /\ call.step = "meter" /\ call.variant = "part_001"
  /\ TimerStep([call EXCEPT !.aeLocked = ~call.aeLocked])

\* A timer of the active list fires: one run of the interval callback,
\* which runs to its end before anything else does.
TimerFires ==
  /\ call.fn = "timer" /\ call.ticks < MaxTimerTicks
  /\ \E id \in call.active :
       call' = [call EXCEPT !.ticks = call.ticks + 1,
                            !.lastTick = <<[id |-> id, step |-> call.step,
                                            active |-> call.active]>>]
  /\ UNCHANGED feed
  /\ AppIdle

NextTimer ==
  \/ TimerRequestCamera
  \/ TimerStartMetering
  \/ TimerBackToSettings
  \/ TimerSetIso
  \/ TimerAeLock
  \/ TimerFires

----------------------------------------------------------------------------
(* SpecBuffer: the size of the working buffer that computeBrightness and   *)
(* drawHistogram draw the video frame into, for one frame size.            *)

\* Math.min(640, width) and Math.min(480, height)
downscaleWidth(width) == Min(640, width)
downscaleHeight(height) == Min(480, height)

\* videoWidth and videoHeight of the cameras tried: none yet, one pixel,
\* around the caps, and the usual 4:3, 16:9 and portrait sizes.
VideoWidths == {0, 1, 320, 480, 639, 640, 641, 720, 1080, 1280, 1920, 3840}
VideoHeights == {0, 1, 240, 479, 480, 481, 640, 720, 960, 1080, 1920, 2160}

InitBuffer ==
  /\ call \in {[fn |-> "buffer", of |-> f, videoWidth |-> w, videoHeight |-> h,
                 pc |-> "start", canvas |-> <<>>] :
                 f \in {"part_001 computeBrightness", "part_001 drawHistogram",
                        "App.js computeBrightness"},
                 w \in VideoWidths, h \in VideoHeights}
  /\ feed = NoFeed
  /\ InitApp({EmptyStorage})

\* The function up to its drawImage call; computeBrightness returns 0
\* before it when a dimension is 0.  canvas is the size set on the canvas.
SizeBuffer ==
  /\ call.fn = "buffer" /\ call.pc = "start"
  /\ IF call.of # "part_001 drawHistogram"
        /\ (call.videoWidth = 0 \/ call.videoHeight = 0)
     THEN call' = [call EXCEPT !.pc = "returned"]
     ELSE call' = [call EXCEPT
                     !.canvas = <<[width |-> downscaleWidth(call.videoWidth),
                                   height |-> downscaleHeight(call.videoHeight)]>>,
                     !.pc = "drawn"]
  /\ UNCHANGED feed
  /\ AppIdle

NextBuffer == SizeBuffer

----------------------------------------------------------------------------
(* SpecFullTable: calculateExposure of the earliest variant                *)
(* (src/unnamed/part_003), which searches the whole candidate table,       *)
(* sorted by shutter time from the longest to the shortest.                *)

\* The keys of a stable sort in ascending order.
RECURSIVE Ascending(_)
Ascending(S) ==
  IF S = {} THEN <<>>
  ELSE LET m == CHOOSE x \in S : \A y \in S : x <= y
       IN <<m>> \o Ascending(S \ {m})

RECURSIVE ConcatBuckets(_, _, _)
ConcatBuckets(table, keys, i) ==
  IF i > Len(keys) THEN <<>>
  ELSE SelectSeq(table, LAMBDA c : c.shutter = keys[i])
         \o ConcatBuckets(table, keys, i + 1)

\* shutterApertureEV ... .sort((a, b) => b.shutter - a.shutter): a stable
\* sort by descending shutter time, that is by ascending reciprocal.
sortedShutterApertureEV ==
  ConcatBuckets(shutterApertureEV,
                Ascending({shutterApertureEV[i].shutter :
                             i \in 1..Len(shutterApertureEV)}), 1)

\* const epsilon = 1e-6, one unit of the micro-EV grid.
epsilon == EVUnit \div 1000000

\* candidate.shutter > bestCandidate.shutter, on shutter times: the
\* reciprocal of the candidate is the smaller one.
bestShutterPreferred(candidate, bestCandidate) ==
  candidate.shutter < bestCandidate.shutter

\* The body of the loop for the candidate at index i, from the best so far.
forOfBody(i, effectiveEV, best) ==
  LET candidate == sortedShutterApertureEV[i]
      diff == Abs(candidate.ev - effectiveEV)
  IN IF \/ diff < best.bestDiff - epsilon
        \/ (/\ Abs(diff - best.bestDiff) < epsilon
            /\ bestShutterPreferred(candidate, best.bestCandidate))
     THEN [bestCandidate |-> candidate, bestDiff |-> diff]
     ELSE best

\* for (const candidate of shutterApertureEV) { ... } over the indices
\* lo..hi in order (the first half, then the second from its result).
RECURSIVE forOfBest(_, _, _, _)
forOfBest(lo, hi, effectiveEV, best) ==
  IF lo > hi THEN best
  ELSE IF lo = hi THEN forOfBody(lo, effectiveEV, best)
  ELSE LET mid == (lo + hi) \div 2
           firstHalf == forOfBest(lo, mid, effectiveEV, best)
       IN \* bestDiff is a Math.abs and never negative: the test only makes the
          \* first half's result a value before the second half starts from it
          IF firstHalf.bestDiff < 0 THEN firstHalf
          ELSE forOfBest(mid + 1, hi, effectiveEV, firstHalf)

\* calculateExposure(avgBrightness, iso, compensation) of part_003.
calculateExposure(brightness, isoValue, comp) ==
  LET avg == IF brightness = 0 THEN 1 ELSE brightness
      measuredEV == 15 * EVUnit - Log2Micro(avg, 118)
      effectiveEV == measuredEV + comp * (EVUnit \div 10) + Log2Micro(isoValue, 100)
      first == sortedShutterApertureEV[1]
      bestCandidate ==
        forOfBest(1, Len(sortedShutterApertureEV), effectiveEV,
                  [bestCandidate |-> first,
                   bestDiff |-> Abs(first.ev - effectiveEV)]).bestCandidate
  IN [shutterSpeed |-> bestCandidate.shutter, aperture |-> bestCandidate.aperture,
      effectiveEV |-> effectiveEV]

\* The ISO and compensation options of part_003 and brightness samples.
FullTableIsoOptions == {100, 200, 400, 800, 1600}
FullTableCompensationOptions == {-30, -20, -10, 0, 10, 20, 30}
FullTableBrightness == {0, 1, 59, 118, 200, 236, 255}

InitFullTable ==
  /\ call \in {[fn |-> "calculateExposure", b |-> b, iso |-> i, comp |-> c,
                 ret |-> <<>>] :
                 b \in FullTableBrightness, i \in FullTableIsoOptions,
                 c \in FullTableCompensationOptions}
  /\ feed = NoFeed
  /\ InitApp({EmptyStorage})

CallCalculateExposure ==
  /\ call.fn = "calculateExposure" /\ call.ret = <<>>
  /\ call' = [call EXCEPT !.ret = <<calculateExposure(call.b, call.iso, call.comp)>>]
  /\ UNCHANGED feed
  /\ AppIdle

NextFullTable == CallCalculateExposure

----------------------------------------------------------------------------
(* SpecSweep: the search of a resolver and the warning bands of the tick,  *)
(* applied to one chosen value of the table and one finite effectiveEV:    *)
(* every 0.05 EV from -2 to 22, the middle of every gap between two        *)
(* neighbouring candidates of the filtered subset, and every candidate's   *)
(* EV shifted by the band boundaries.                                      *)

\* candidates = shutterApertureEV.filter(c => c.<axis> === chosen)
candidatesOf(axis, chosen) ==
  SelectSeq(shutterApertureEV,
            LAMBDA c : IF axis = "shutter" THEN c.shutter = chosen
                       ELSE c.aperture = chosen)

\* The forEach search and evDifference of a resolver, from its effectiveEV on.
resolveAt(candidates, effectiveEV) ==
  LET closestCandidate == forEachClosest(candidates, 1, effectiveEV, <<>>, PosInf)
  IN [closestCandidate |-> closestCandidate,
      evDifference |-> evDifferenceOf(closestCandidate, effectiveEV)]

SweepOffsets == {0} \cup {b + e : b \in BandBoundaries, e \in {-1, 0, 1}}

SweepEVs(candidates) ==
  {k * (EVUnit \div 20) : k \in -40..440}
    \cup {(candidates[i].ev + candidates[i + 1].ev) \div 2 + e :
            i \in 1..(Len(candidates) - 1), e \in {0, 1}}
    \cup {candidates[i].ev + o : i \in 1..Len(candidates), o \in SweepOffsets}

SweepAxes ==
  {[axis |-> "shutter", chosen |-> v] : v \in Range(standardShutterSpeeds)}
    \cup {[axis |-> "aperture", chosen |-> v] : v \in Range(standardApertures)}

InitSweep ==
  /\ call \in UNION {{[fn |-> "resolve", axis |-> a.axis, chosen |-> a.chosen,
                        effectiveEV |-> Fin(E), ret |-> <<>>] :
                         E \in SweepEVs(candidatesOf(a.axis, a.chosen))} :
                      a \in SweepAxes}
  /\ feed = NoFeed
  /\ InitApp({EmptyStorage})

CallResolve ==
  /\ call.fn = "resolve" /\ call.ret = <<>>
  /\ LET r == resolveAt(candidatesOf(call.axis, call.chosen), call.effectiveEV)
     IN call' = [call EXCEPT
                   !.ret = <<[closestCandidate |-> r.closestCandidate,
                              evDifference |-> r.evDifference,
                              exposureWarning |-> exposureWarningOf(r.evDifference)]>>]
  /\ UNCHANGED feed
  /\ AppIdle

NextSweep == CallResolve

----------------------------------------------------------------------------
(* SpecCalibrate: the Auto Calibrate Gray Card button.  The button is on   *)
(* the settings step; the video and canvas elements that videoRef and      *)
(* canvasRef point to are rendered on the meter step only, and React sets  *)
(* a ref to null when its element is unmounted.  b is the brightness       *)
(* computeBrightness would return for the frame the camera delivers.       *)

MaxClicks == 2

\* parseFloat((referenceGray / avgBrightness).toFixed(2)), in hundredths.
newFactorOf(b) == Fin((2 * 100 * referenceGray + b) \div (2 * b))

\* handleAutoCalibrate with the refs as they are at the click.
autoCalibrate(videoRefSet, canvasRefSet, b, factor) ==
  IF videoRefSet /\ canvasRefSet
  THEN IF b > 0 THEN newFactorOf(b) ELSE factor
  ELSE factor

\* The refs are set while the elements of the meter step are rendered.
refsSetOn(s) == s = "meter"

CalibrateFrames == {0, 1, 64, 100, 118, 128, 200, 255}

InitCalibrate ==
  /\ call \in {[fn |-> "autoCalibrate", step |-> "iso", b |-> b,
                 calibrationFactor |-> f, clicks |-> 0, lastClick |-> <<>>] :
                 b \in CalibrateFrames, f \in {Fin(85), Fin(100)}}
  /\ feed = NoFeed
  /\ InitApp({EmptyStorage})

\* A click on Auto Calibrate Gray Card (settings step).
ClickAutoCalibrate ==
  /\ call.fn = "autoCalibrate" /\ call.step = "iso" /\ call.clicks < MaxClicks
  /\ LET after == autoCalibrate(refsSetOn(call.step), refsSetOn(call.step),
                                call.b, call.calibrationFactor)
     IN call' = [call EXCEPT
                   !.calibrationFactor = after,
                   !.clicks = call.clicks + 1,
                   !.lastClick = <<[b |-> call.b, before |-> call.calibrationFactor,
                                    after |-> after]>>]
  /\ UNCHANGED feed
  /\ AppIdle

\* Confirm & Start Metering / Back.
CalibrateChangeStep ==
  /\ call.fn = "autoCalibrate"
  /\ call' = [call EXCEPT !.step = IF call.step = "iso" THEN "meter" ELSE "iso"]
  /\ UNCHANGED feed
  /\ AppIdle

\* The camera delivers another frame.
CalibrateNewFrame ==
  /\ call.fn = "autoCalibrate"
  /\ \E b \in CalibrateFrames \ {call.b} : call' = [call EXCEPT !.b = b]
  /\ UNCHANGED feed
  /\ AppIdle

NextCalibrate == ClickAutoCalibrate \/ CalibrateChangeStep \/ CalibrateNewFrame

vars == <<app, call, feed>>

Spec == Init /\ [][Next]_vars

\* The metering step with the default settings, where the render that a
\* click on AE Lock causes may lag behind the click.
NextStale ==
  \/ Mount
  \/ RequestCamera
  \/ StartMetering
  \/ BackToSettings
  \/ Tick
  \/ handleAeLock
  \/ handleAeLockDeferred
  \/ TickEffect
SpecStale == Init /\ [][NextStale]_vars
SpecCalc == InitCalc /\ [][NextCalc]_vars
SpecSmoother == InitSmoother /\ [][NextSmoother]_vars
SpecClassifier == InitClassifier /\ [][NextClassifier]_vars
SpecHistogram == InitHistogram /\ [][NextHistogram]_vars
SpecTimer == InitTimer /\ [][NextTimer]_vars
SpecBuffer == InitBuffer /\ [][NextBuffer]_vars
SpecFullTable == InitFullTable /\ [][NextFullTable]_vars
SpecSweep == InitSweep /\ [][NextSweep]_vars
SpecCalibrate == InitCalibrate /\ [][NextCalibrate]_vars

----------------------------------------------------------------------------
(* Properties of the pure functions (SpecCalc) *)

Returned == call.ret # <<>>
Resolved == Returned /\ call.fn \in {"shutter", "aperture"}

\* The candidates whose fixed-axis value equals the chosen value.
FilteredSubset ==
  {c \in Range(shutterApertureEV) :
     IF call.fn = "shutter" THEN c.shutter = call.chosen ELSE c.aperture = call.chosen}

\* The candidates with the shutter and aperture of the returned reading.
ReturnedCandidates ==
  {c \in Range(shutterApertureEV) :
     c.shutter = call.ret[1].shutterSpeed /\ c.aperture = call.ret[1].aperture}

\* C1: calculateEffectiveEV returns -Infinity, as a value, for every
\* brightness <= 0, whatever iso, compensation and calibrationFactor are
\* (also as the effectiveEV field of what the two resolvers return).
C1_NonPositiveBrightnessIsNegInf ==
  (Returned /\ call.b <= 0) =>
     IF call.fn = "ev" THEN call.ret[1] = NegInf
     ELSE call.ret[1].effectiveEV = NegInf

C1_Witness ==
  /\ call.fn = "ev" /\ Returned /\ call.b < 0
  /\ call.cf = NaN /\ call.ret[1] = NegInf

\* C2: for brightness b > 0, iso i > 0 and calibrationFactor f > 0 the
\* effective EV is strictly increasing in b, strictly increasing in i, and
\* linear with slope 1 in the compensation c.
C2_MonotoneAndLinear ==
  (call.fn = "ev" /\ Returned /\ call.b > 0 /\ call.iso > 0
     /\ IsFinite(call.cf) /\ call.cf.v > 0) =>
     /\ IsFinite(call.ret[1])
     /\ \A b2 \in BrightnessInputs \cup {call.b + 1} :
          b2 > call.b =>
            FLt(call.ret[1], calculateEffectiveEV(b2, call.iso, call.comp, call.cf))
     /\ \A i2 \in Range(isoValues) :
          i2 > call.iso =>
            FLt(call.ret[1], calculateEffectiveEV(call.b, i2, call.comp, call.cf))
     /\ \A c2 \in Range(compensationSteps) :
          calculateEffectiveEV(call.b, call.iso, c2, call.cf)
            = FAdd(call.ret[1], Fin((c2 - call.comp) * (EVUnit \div 10)))

C2_Witness ==
  /\ call.fn = "ev" /\ Returned /\ call.b = 129 /\ call.iso = 125
  /\ call.comp = 7 /\ call.cf = Fin(85) /\ IsFinite(call.ret[1])

\* C3: brightness 128, iso 100, compensation 0, calibrationFactor 1.0 (with
\* referenceGray 128 and referenceEV 7) give an effective EV of exactly 7.0,
\* and the aperture-priority resolver with chosenAperture 5.6 returns
\* aperture 5.6 and the shutter of the list whose log2(5.6^2/shutter) is
\* closest to 7.0.
C3_EndToEnd ==
  (call.fn = "aperture" /\ Returned /\ call.b = 128 /\ call.iso = 100
     /\ call.comp = 0 /\ call.cf = Fin(100) /\ call.chosen = 56) =>
     /\ referenceGray = 128 /\ referenceEV = 7
     /\ call.ret[1].effectiveEV = Fin(7 * EVUnit)
     /\ call.ret[1].aperture = 56
     /\ call.ret[1].shutterSpeed \in Range(standardShutterSpeeds)
     /\ \A k \in Range(standardShutterSpeeds) :
          Abs(Log2Micro(56 * 56 * call.ret[1].shutterSpeed, 100) - 7 * EVUnit)
            <= Abs(Log2Micro(56 * 56 * k, 100) - 7 * EVUnit)

C3_Witness ==
  /\ call.fn = "aperture" /\ Returned /\ call.b = 128 /\ call.iso = 100
  /\ call.comp = 0 /\ call.cf = Fin(100) /\ call.chosen = 56
  /\ call.ret[1].shutterSpeed = 4

\* C4 (as claimed): the aperture-priority resolver with chosenAperture 2.8
\* returns aperture 2.8 and a shutter of the fixed shutter list, for every
\* brightness, iso, compensation and calibrationFactor.
C4_Original ==
  (call.fn = "aperture" /\ Returned /\ call.chosen = 28) =>
     /\ call.ret[1].aperture = 28
     /\ call.ret[1].shutterSpeed \in Range(standardShutterSpeeds)

\* C5 (as claimed): whenever the filtered subset is not empty, both
\* resolvers return one of its candidates, never the null candidate, for
\* every effectiveEV the calculator produces, -Infinity included.
C5_Original ==
  (Resolved /\ FilteredSubset # {}) =>
     /\ call.ret[1].shutterSpeed # 0 /\ call.ret[1].aperture # 0
     /\ ReturnedCandidates \subseteq FilteredSubset
     /\ ReturnedCandidates # {}

\* C6: for a finite effectiveEV the returned candidate belongs to the
\* filtered subset and no candidate of that subset is strictly closer to
\* effectiveEV; evDifference is that candidate's EV minus effectiveEV.
C6_ClosestCandidate ==
  (Resolved /\ FilteredSubset # {} /\ IsFinite(call.ret[1].effectiveEV)) =>
     /\ ReturnedCandidates # {}
     /\ \A r \in ReturnedCandidates :
          /\ r \in FilteredSubset
          /\ call.ret[1].evDifference = Fin(r.ev - call.ret[1].effectiveEV.v)
          /\ \A c \in FilteredSubset :
               Abs(r.ev - call.ret[1].effectiveEV.v)
                 <= Abs(c.ev - call.ret[1].effectiveEV.v)

C6_Witness ==
  /\ call.fn = "shutter" /\ Returned /\ call.chosen = 125
  /\ IsFinite(call.ret[1].effectiveEV)
  /\ call.ret[1].aperture = 40

\* C8: when the chosen fixed-axis value matches no candidate, the resolver
\* returns (as a value) the chosen value, 0 on the opposite axis and
\* evDifference 0.
C8_AxisMissIsZero ==
  (Resolved /\ FilteredSubset = {}) =>
     /\ call.ret[1].evDifference = Fin(0)
     /\ IF call.fn = "shutter"
        THEN call.ret[1].aperture = 0 /\ call.ret[1].shutterSpeed = call.chosen
        ELSE call.ret[1].shutterSpeed = 0 /\ call.ret[1].aperture = call.chosen

C8_Witness ==
  /\ call.fn = "aperture" /\ Returned /\ call.chosen = 35
  /\ IsFinite(call.ret[1].effectiveEV) /\ call.ret[1].effectiveEV.v # 0

----------------------------------------------------------------------------
(* Properties of the application (Spec) *)

\* C7: in every reachable state of the application the chosen shutter is a
\* member of standardShutterSpeeds and the chosen aperture a member of
\* standardApertures, so the candidate table has an entry for each of them
\* and the resolver never misses its fixed axis.
C7_ChosenValuesInTable ==
  /\ chosenShutter \in Range(standardShutterSpeeds)
  /\ chosenAperture \in Range(standardApertures)
  /\ \E c \in Range(shutterApertureEV) : c.shutter = chosenShutter
  /\ \E c \in Range(shutterApertureEV) : c.aperture = chosenAperture

C7_Witness ==
  /\ step = "meter" /\ priorityMode = "shutter" /\ chosenShutter = 8
  /\ budget.ticks >= 1 /\ exposure.shutterSpeed = 8
  /\ exposure.aperture \in Range(standardApertures)

\* The raw effectiveEV of the reading the tick has just taken.
RawEffectiveEV == calculateEffectiveEV(avgBrightness', iso, compensation, calibrationFactor)

InRangeTick ==
  /\ budget'.ticks = budget.ticks + 1
  /\ tickOutcome'.path = "metered"

\* C9: on an in-range tick with the smoother unset, smoothedEV becomes the
\* raw effectiveEV of that tick; on every later in-range tick it becomes
\* smoothedEV * (1 - alpha) + effectiveEV * alpha (to half a unit of
\* rounding), alpha being the configured smoothingFactor and effectiveEV the
\* raw value of the tick, also while AE Lock shows the locked EV.
C9_SmootherRecurrence ==
  [][InRangeTick =>
       /\ smoothedEVRef' # <<>>
       /\ exposure'.smoothedEV = smoothedEVRef'[1]
       /\ smoothedEVRef = <<>> => smoothedEVRef'[1] = RawEffectiveEV
       /\ (smoothedEVRef # <<>> /\ IsFinite(smoothingFactor)) =>
            IF IsFinite(smoothedEVRef[1]) /\ IsFinite(RawEffectiveEV)
            THEN /\ IsFinite(smoothedEVRef'[1])
                 /\ Abs(100 * smoothedEVRef'[1].v
                          - (smoothedEVRef[1].v * (100 - smoothingFactor.v)
                               + RawEffectiveEV.v * smoothingFactor.v)) <= 50
            ELSE smoothedEVRef'[1] =
                   FAdd(FScale(smoothedEVRef[1], 100 - smoothingFactor.v, 100),
                        FScale(RawEffectiveEV, smoothingFactor.v, 100))]_vars

C9_Witness ==
  /\ budget.ticks >= 2 /\ aeLocked /\ lockedEVRef # <<>>
  /\ avgBrightness = 250 /\ error = ""
  /\ IsFinite(exposure.smoothedEV) /\ IsFinite(exposure.effectiveEV)
  /\ exposure.effectiveEV = lockedEVRef[1]
  /\ exposure.smoothedEV # exposure.effectiveEV
  /\ exposure.smoothedEV
       # calculateEffectiveEV(avgBrightness, iso, compensation, calibrationFactor)
  /\ exposure.effectiveEV
       # calculateEffectiveEV(avgBrightness, iso, compensation, calibrationFactor)

----------------------------------------------------------------------------
(* AE Lock *)

\* C11 (as claimed): while the AE lock stays engaged, no step changes the
\* smoothedEV or the effectiveEV of the published reading: both keep the
\* values they had when the lock was engaged.
C11_Original ==
  [][(aeLocked /\ aeLocked') =>
       /\ exposure'.smoothedEV = exposure.smoothedEV
       /\ exposure'.effectiveEV = exposure.effectiveEV]_vars

\* The part of C11 the code keeps: the effectiveEV of the reading.
C11_EffectiveEVPinned ==
  [][(aeLocked /\ aeLocked') => exposure'.effectiveEV = exposure.effectiveEV]_vars

\* C12: a metered tick that runs while the AE lock is released publishes
\* the live effectiveEV it computed, also when its closure still holds
\* aeLocked = true because the render of the unlock click is pending.
C12_UnlockResumesLiveEV ==
  [][(InRangeTick /\ ~aeLocked) =>
       /\ exposure'.effectiveEV = RawEffectiveEV
       /\ exposure'.effectiveEV # NullEV]_vars

\* C13: an engaged AE lock and its captured value are changed by no step
\* other than a click on the AE Lock button: not by a tick (metered, out of
\* range, not ready or throwing), a settings change, a preset, the restart
\* of the timer or the navigation between the settings and the meter.
C13_LockReleasedOnlyByToggle ==
  [][(aeLocked /\ lockedEVRef # <<>>) =>
       \/ aeLocked' /\ lockedEVRef' = lockedEVRef
       \/ handleAeLock]_vars

C13_Witness ==
  /\ aeLocked /\ lockedEVRef # <<>> /\ step = "iso"
  /\ tickOutcome.stateLocked
  /\ tickOutcome.path \in {"dark", "bright", "computeThrew"}
  /\ filmPreset # "custom"

C12_Witness ==
  /\ tickOutcome.path = "metered"
  /\ tickOutcome.closureLocked /\ ~tickOutcome.stateLocked
  /\ ~aeLocked /\ lockedEVRef = <<>> /\ budget.ticks >= 2
  /\ exposure.effectiveEV
       = calculateEffectiveEV(avgBrightness, iso, compensation, calibrationFactor)
  /\ exposure.smoothedEV # exposure.effectiveEV

\* C28: whenever the AE lock is engaged, the captured value is the
\* effectiveEV of a reading that an earlier in-range tick produced, never
\* the placeholder reading that exists before the first successful tick:
\* at the step that engages the lock a metered tick has already run
\* (smoothedEVRef is set by the first one and never cleared) and the value
\* captured is the published effectiveEV.
C28_Original ==
  [][(~aeLocked /\ aeLocked')
       => /\ smoothedEVRef # <<>>
          /\ lockedEVRef' = <<exposure.effectiveEV>>]_vars

\* What the handler does ensure: the value captured is the effectiveEV of
\* the exposure state at the click, placeholder or not.
C28_CapturesExposureState ==
  [][(~aeLocked /\ aeLocked') => lockedEVRef' = <<exposure.effectiveEV>>]_vars

----------------------------------------------------------------------------
(* The tick on scenes out of range *)

\* A step that is a tick in which computeBrightness returned a value.
BrightnessTick ==
  /\ budget'.ticks = budget.ticks + 1
  /\ tickOutcome'.path \in {"dark", "bright", "metered"}

\* C18: a tick whose brightness is below 5 or above 250 sets an error and
\* leaves the published reading, the smoother and the warning as they were
\* (resolver, smoother and classifier are skipped); a tick whose brightness
\* is in 5..250, the two ends included, is metered: it runs the smoother and
\* publishes its reading and the warning of its evDifference.
C18_OutOfRangeTickSkips ==
  [][BrightnessTick =>
       IF avgBrightness' < 5 \/ avgBrightness' > 250
       THEN /\ error' # ""
            /\ ~tickOutcome'.histogramThrew =>
                 error' = IF avgBrightness' < 5
                          THEN "Extremely dark, increase ISO/aperture."
                          ELSE "Extremely bright! Reduce ISO or aperture."
            /\ UNCHANGED <<exposure, exposureWarning, smoothedEVRef>>
       ELSE /\ ~tickOutcome'.histogramThrew => error' = ""
            /\ smoothedEVRef' # <<>>
            /\ exposure'.smoothedEV = smoothedEVRef'[1]
            /\ IF priorityMode = "aperture"
               THEN exposure'.aperture = chosenAperture
               ELSE exposure'.shutterSpeed = chosenShutter
            /\ exposureWarning' = exposureWarningOf(exposure'.evDifference)]_vars

C18_Witness ==
  /\ tickOutcome.path = "dark" /\ avgBrightness = 4 /\ budget.ticks >= 2
  /\ error = "Extremely dark, increase ISO/aperture."
  /\ smoothedEVRef # <<>> /\ exposure.smoothedEV = smoothedEVRef[1]
  /\ exposure.aperture = chosenAperture /\ exposureWarning # ""

\* A step that is one run of the interval callback.
IsTick == budget'.ticks = budget.ticks + 1

\* C22: a tick never changes the configuration, the step, the AE-lock flag
\* or the captured lock value; what it may change is the published reading,
\* the warning, the error, the smoother state and the canvases.
C22_TickFrameCondition ==
  [][IsTick => UNCHANGED <<iso, compensation, priorityMode, chosenShutter,
                           chosenAperture, calibrationFactor,
                           overExposureThreshold, underExposureThreshold,
                           meteringMode, smoothingFactor, colorChannelMode,
                           step, aeLocked, lockedEVRef>>]_vars

\* A metered tick has run with the lock engaged and settings off their
\* defaults.
C22_Witness ==
  /\ tickOutcome.path = "metered" /\ tickOutcome.stateLocked
  /\ aeLocked /\ lockedEVRef # <<>> /\ iso = 400
  /\ exposure.smoothedEV # lockedEVRef[1]

\* log2(aperture^2 / shutterSpeed) of the published reading r, minus its
\* effectiveEV field.
CandidateEVMinusEffectiveEV(r) ==
  FSub(Fin(Log2Micro(r.aperture * r.aperture * r.shutterSpeed, 100)), r.effectiveEV)

\* The reading r has a candidate and a finite effectiveEV.
HasCandidate(r) == r.aperture # 0 /\ r.shutterSpeed # 0 /\ IsFinite(r.effectiveEV)

\* C23: in every published reading with a resolved candidate, evDifference
\* is the candidate's EV, log2(aperture^2/shutterSpeed) of that reading,
\* minus the effectiveEV field of that reading, AE lock engaged or not.
C23_Original ==
  (smoothedEVRef # <<>> /\ HasCandidate(exposure))
    => exposure.evDifference = CandidateEVMinusEffectiveEV(exposure)

\* The same for the readings of ticks that ran without the lock override.
C23_ConsistentWithoutLock ==
  [][(InRangeTick /\ ~(renderedAeLocked /\ lockedEVRef # <<>>) /\ HasCandidate(exposure'))
       => exposure'.evDifference = CandidateEVMinusEffectiveEV(exposure')]_vars

\* The settings the next tick reads are all usable numbers.
ValidConfiguration ==
  /\ iso > 0
  /\ IsFinite(calibrationFactor) /\ calibrationFactor.v > 0
  /\ IsFinite(smoothingFactor) /\ smoothingFactor.v > 0 /\ smoothingFactor.v <= 100
  /\ IsFinite(overExposureThreshold) /\ IsFinite(underExposureThreshold)

\* C19: a tick that runs with a ready frame, a brightness in range, no
\* exception, a valid configuration and no AE lock clears the error and
\* publishes a finite effectiveEV and a finite smoothedEV, whatever the
\* ticks and settings changes before it did.
C19_Original ==
  [][(/\ InRangeTick /\ ~tickOutcome'.histogramThrew
      /\ ValidConfiguration /\ ~aeLocked /\ ~renderedAeLocked)
       => /\ error' = ""
          /\ IsFinite(exposure'.effectiveEV)
          /\ IsFinite(exposure'.smoothedEV)]_vars

\* The part of C19 that the tick does keep: the error is cleared and the
\* effectiveEV of the reading is finite.
C19_ErrorClearedAndEVFinite ==
  [][(/\ InRangeTick /\ ~tickOutcome'.histogramThrew
      /\ ValidConfiguration /\ ~aeLocked /\ ~renderedAeLocked)
       => /\ error' = ""
          /\ IsFinite(exposure'.effectiveEV)]_vars

----------------------------------------------------------------------------
(* Settings across sessions *)

\* The storage in Init is one the save effect writes.
PreviousSessionWasSaved ==
  PreviousSessionStorage = SavedSettings(400, 10, "shutter", Fin(92), Fin(250), Fin(10))

\* C20: after the application has started and run its startup effects, every
\* setting whose stored value from the previous session is valid has that
\* value (and a setting with no valid stored value keeps its default): the
\* state is the one the restore effect produces from the storage the
\* previous session left.
C20_Original ==
  [][(~mounted /\ mounted') => RestoreEffect(localStorage)]_vars

\* What the startup does establish: from then on the storage holds the
\* settings in effect.
C20_StorageFollowsSettings ==
  mounted => localStorage = SavedSettings(iso, compensation, priorityMode,
                                          calibrationFactor, overExposureThreshold,
                                          underExposureThreshold)

\* C25: in every reachable state compensation is one of compensationSteps,
\* also after a film preset was selected and after the startup restore.
C25_Original ==
  compensation \in Range(compensationSteps)

\* What does hold: compensation is a step of the list or the
\* recommendedCompensation of a film preset.
C25_StepOrPresetValue ==
  compensation \in Range(compensationSteps)
                     \cup {filmPresets[n].recommendedCompensation :
                             n \in DOMAIN filmPresets}

----------------------------------------------------------------------------
(* Properties of the metering timer (SpecTimer) *)

\* C21: at most one periodic metering timer is active, none is active while
\* the step is not 'meter', and every tick ran on the meter step as the
\* callback of the only active timer.
C21_TimerLifecycle ==
  call.fn = "timer" =>
    /\ Cardinality(call.active) <= 1
    /\ call.step # "meter" => call.active = {}
    /\ call.lastTick # <<>> =>
         /\ call.lastTick[1].step = "meter"
         /\ call.lastTick[1].active = {call.lastTick[1].id}

\* Metering was left after a tick of a timer that replaced an earlier one.
C21_Witness ==
  /\ call.fn = "timer" /\ call.step = "iso" /\ call.active = {}
  /\ call.lastTick # <<>> /\ call.lastTick[1].id >= 2

----------------------------------------------------------------------------
(* Properties of the working buffer (SpecBuffer) *)

\* A frame with both dimensions positive has been drawn into the buffer.
BufferDrawn ==
  /\ call.fn = "buffer" /\ call.pc = "drawn"
  /\ call.videoWidth > 0 /\ call.videoHeight > 0

\* dw * h = dh * w up to the rounding of dw or of dh to an integer.
SameAspect(dw, dh, w, h) ==
  \/ Abs(dw * h - dh * w) <= w
  \/ Abs(dw * h - dh * w) <= h

\* C24: for a frame of width w > 0 and height h > 0 the buffer (dw, dh) has
\* dw <= 640 and dh <= 480 and the aspect ratio of the frame.
C24_Original ==
  BufferDrawn =>
    /\ call.canvas[1].width <= 640
    /\ call.canvas[1].height <= 480
    /\ SameAspect(call.canvas[1].width, call.canvas[1].height,
                  call.videoWidth, call.videoHeight)

\* The cap alone, and the aspect ratio of the frames that need no scaling.
C24_BufferCapped ==
  BufferDrawn =>
    /\ call.canvas[1].width <= 640
    /\ call.canvas[1].height <= 480
    /\ (call.videoWidth <= 640 /\ call.videoHeight <= 480) =>
         call.canvas[1] = [width |-> call.videoWidth, height |-> call.videoHeight]

----------------------------------------------------------------------------
(* Properties of the full-table resolver (SpecFullTable) *)

FullTableReturned == call.fn = "calculateExposure" /\ call.ret # <<>>

\* The distance of the candidate c from the effectiveEV of the call.
DiffOf(c) == Abs(c.ev - call.ret[1].effectiveEV)

\* The distance of the returned candidate.
ReturnedDiff ==
  Abs(Log2Micro(call.ret[1].aperture * call.ret[1].aperture * call.ret[1].shutterSpeed,
                100) - call.ret[1].effectiveEV)

\* The candidates as close to effectiveEV as the returned one, within epsilon.
EquallyClose ==
  {c \in Range(shutterApertureEV) : Abs(DiffOf(c) - ReturnedDiff) < epsilon}

\* C27: when several candidates are equally close to effectiveEV (within
\* epsilon), the returned one has the fastest shutter of them: no equally
\* close candidate has a shorter shutter time (a larger reciprocal).
C27_Original ==
  FullTableReturned =>
    \A c \in EquallyClose : c.shutter <= call.ret[1].shutterSpeed

\* What the loop returns: a candidate no other beats by more than epsilon,
\* and of the equally close ones the one with the longest shutter time.
C27_SlowestShutterOnTies ==
  FullTableReturned =>
    /\ \A c \in Range(shutterApertureEV) : ReturnedDiff <= DiffOf(c) + epsilon
    /\ \A c \in EquallyClose : c.shutter >= call.ret[1].shutterSpeed

----------------------------------------------------------------------------
(* Properties of the resolver over its EV range (SpecSweep) *)

Swept == call.fn = "resolve" /\ call.ret # <<>>

\* The EVs of the filtered subset of the call.
SubsetEVs ==
  {c.ev : c \in {x \in Range(shutterApertureEV) :
                   IF call.axis = "shutter" THEN x.shutter = call.chosen
                   ELSE x.aperture = call.chosen}}

AboveMaximum == \A e \in SubsetEVs : call.effectiveEV.v > e
BelowMinimum == \A e \in SubsetEVs : call.effectiveEV.v < e

\* C29: for a chosen value of the table and a finite effectiveEV between the
\* smallest and the largest EV of the filtered subset, |evDifference| < 0.6
\* and the warning is none or slight; a moderate or severe warning occurs
\* only beyond the ends of the subset's EV range, the underexposed
\* (negative) ones only above its maximum and the overexposed (positive)
\* ones only below its minimum.
C29_BandsInsideRange ==
  Swept =>
    /\ SubsetEVs # {}
    /\ (~AboveMaximum /\ ~BelowMinimum) =>
         /\ Abs(call.ret[1].evDifference.v) < 6 * (EVUnit \div 10)
         /\ call.ret[1].exposureWarning \in
              {"", "Slightly underexposed, fine-tune settings.",
               "Slightly overexposed, fine-tune settings."}
    /\ call.ret[1].exposureWarning \in
         {"Moderately underexposed, consider increasing aperture or ISO.",
          "Severely underexposed, increase aperture or ISO significantly."}
         => AboveMaximum /\ call.ret[1].evDifference.v <= 0 - 6 * (EVUnit \div 10)
    /\ call.ret[1].exposureWarning \in
         {"Moderately overexposed, consider reducing aperture or ISO.",
          "Severely overexposed, reduce aperture or ISO significantly."}
         => BelowMinimum /\ call.ret[1].evDifference.v >= 6 * (EVUnit \div 10)

\* An effectiveEV in the middle of the widest gap (f/11 to f/16): slight.
C29_Witness ==
  /\ Swept /\ call.axis = "shutter" /\ call.chosen = 125
  /\ ~AboveMaximum /\ ~BelowMinimum
  /\ Abs(call.ret[1].evDifference.v) > 54 * (EVUnit \div 100)
  /\ call.ret[1].exposureWarning = "Slightly overexposed, fine-tune settings."

----------------------------------------------------------------------------
(* Properties of the auto-calibration (SpecCalibrate) *)

Clicked == call.fn = "autoCalibrate" /\ call.lastClick # <<>>

\* C30: a click on Auto Calibrate Gray Card on the settings step, while the
\* camera delivers a frame of brightness b > 0, sets calibrationFactor to
\* referenceGray / b rounded to two decimals; with b = 0 it leaves
\* calibrationFactor unchanged.
C30_Original ==
  Clicked =>
    IF call.lastClick[1].b > 0
    THEN 2 * Abs(call.lastClick[1].b * call.lastClick[1].after.v - 100 * referenceGray)
           <= call.lastClick[1].b
    ELSE call.lastClick[1].after = call.lastClick[1].before

\* What the click does on the settings step: nothing.
C30_ClickChangesNothing ==
  Clicked => call.lastClick[1].after = call.lastClick[1].before

----------------------------------------------------------------------------
(* Properties of the warning bands (SpecClassifier) *)

\* The band of an evDifference d (in micro-EV) as the table of bands has it.
BandOf(d) ==
  IF d <= 0 - 1000000 THEN "Severely underexposed, increase aperture or ISO significantly."
  ELSE IF d <= 0 - 600000 THEN "Moderately underexposed, consider increasing aperture or ISO."
  ELSE IF d <= 0 - 300000 THEN "Slightly underexposed, fine-tune settings."
  ELSE IF d < 300000 THEN ""
  ELSE IF d < 600000 THEN "Slightly overexposed, fine-tune settings."
  ELSE IF d < 1000000 THEN "Moderately overexposed, consider reducing aperture or ISO."
  ELSE "Severely overexposed, reduce aperture or ISO significantly."

\* C15: the classifier gives every evDifference the band of the table:
\* <= -1.0 severe under, (-1.0, -0.6] moderate under, (-0.6, -0.3] slight
\* under, (-0.3, 0.3) none, [0.3, 0.6) slight over, [0.6, 1.0) moderate
\* over, >= 1.0 severe over; so -1.0 is severe under, -0.6 moderate under,
\* 0.0 none and 1.0 severe over.
C15_ClassifierBands ==
  (call.fn = "classify" /\ call.ret # <<>>) =>
     /\ EVUnit = 1000000
     /\ call.ret[1] = BandOf(call.evDifference.v)
     /\ call.evDifference.v = 0 - EVUnit =>
          call.ret[1] = "Severely underexposed, increase aperture or ISO significantly."
     /\ call.evDifference.v = 0 - 6 * (EVUnit \div 10) =>
          call.ret[1] = "Moderately underexposed, consider increasing aperture or ISO."
     /\ call.evDifference.v = 0 => call.ret[1] = ""
     /\ call.evDifference.v = EVUnit =>
          call.ret[1] = "Severely overexposed, reduce aperture or ISO significantly."

C15_Witness ==
  /\ call.fn = "classify" /\ call.evDifference = Fin(0 - 6 * (EVUnit \div 10))
  /\ call.ret = <<"Moderately underexposed, consider increasing aperture or ISO.">>

----------------------------------------------------------------------------
(* Properties of the histogram (SpecHistogram) *)

\* The sum of the bins lo..hi.
RECURSIVE SumBins(_, _, _)
SumBins(histogram, lo, hi) ==
  IF lo = hi THEN histogram[lo]
  ELSE LET mid == (lo + hi) \div 2
       IN SumBins(histogram, lo, mid) + SumBins(histogram, mid + 1, hi)

Counted == call.fn = "histogram" /\ call.pc # "start"

\* C16: for every frame and compensation the 256 bins of the combined
\* histogram, and of each of the R, G and B histograms in separate mode, add
\* up to the number of sampled pixels, ceil(pixels / 2), and every bin index
\* incremented lies in 0..255.
C16_BinCountConservation ==
  Counted =>
    /\ DOMAIN call.histograms = Channels(call.mode)
    /\ \A ch \in DOMAIN call.histograms :
         /\ DOMAIN call.histograms[ch] = 0..255
         /\ SumBins(call.histograms[ch], 0, 255) = (Len(call.frame) + 1) \div 2
         /\ \A k \in 1..Len(call.frame) :
              (k - 1) % 2 = 0 =>
                BinIndex(call.frame[k], call.comp, ch) \in 0..255

C16_Witness ==
  /\ Counted /\ call.mode = "combined" /\ call.comp = 30
  /\ Len(call.frame) = 3
  /\ call.histograms["combined"][255] = 2

\* Eight times the marker brightness referenceGray * 2^(zone - 5) of a zone
\* (a whole number for every zone from 2 up).
MarkerTimes8(zone) == referenceGray * 2^(zone - 2)

ZonesPlaced == call.fn = "histogram" /\ call.variant = "App.js" /\ call.pc = "done"

\* C17: the clipped flag is true exactly when the marker brightness
\* referenceGray * 2^(zone - 5) of at least one zone of zoneNumbers exceeds
\* 255; with referenceGray = 128 the marker of zone 7 (512) sets the flag
\* and the marker of zone 5 (128) does not.
C17_ZoneClipping ==
  ZonesPlaced =>
    /\ call.zones.clipped <=>
         \E i \in 1..Len(zoneNumbers) : MarkerTimes8(zoneNumbers[i]) > 8 * 255
    /\ call.zones.clippedBy =
         {z \in Range(zoneNumbers) : MarkerTimes8(z) > 8 * 255}
    /\ referenceGray = 128
    /\ MarkerTimes8(7) = 8 * 512 /\ 7 \in call.zones.clippedBy
    /\ MarkerTimes8(5) = 8 * 128 /\ 5 \notin call.zones.clippedBy
    /\ Len(call.zones.boundaries) = Len(zoneNumbers)
    /\ \A i \in 1..Len(zoneNumbers) :
         8 * call.zones.boundaries[i] = Min(MarkerTimes8(zoneNumbers[i]), 8 * 255)

C17_Witness ==
  /\ ZonesPlaced /\ call.zones.clipped
  /\ call.zones.boundaries = <<16, 32, 64, 128, 255, 255>>
  /\ Len(call.frame) = 3

\* The zones that have a marker.
MarkedZones == {call.markers[i].zone : i \in 1..Len(call.markers)}

\* C26: a marker is produced at brightness referenceGray * 2^(zone - 5) for
\* every zone of zoneNumbers whose marker brightness is <= 255, and for no
\* zone whose marker brightness exceeds 255.
C26_Original ==
  ZonesPlaced =>
    /\ MarkedZones = {z \in Range(zoneNumbers) : MarkerTimes8(z) <= 8 * 255}
    /\ \A i \in 1..Len(call.markers) :
         8 * call.markers[i].brightness = MarkerTimes8(call.markers[i].zone)

\* What the drawing loop does: the first zone of the list never gets a
\* marker, the others do when their brightness is <= 255.
C26_MarkersSkipFirstZone ==
  ZonesPlaced =>
    /\ MarkedZones = {zoneNumbers[i] : i \in 2..Len(zoneNumbers)}
                       \cap {z \in Range(zoneNumbers) : MarkerTimes8(z) <= 8 * 255}
    /\ MarkedZones = {3, 4, 5}
    /\ \A i \in 1..Len(call.markers) :
         8 * call.markers[i].brightness = MarkerTimes8(call.markers[i].zone)

----------------------------------------------------------------------------
(* Properties of the smoother fed a constant EV (SpecSmoother) *)

Distance == IF feed.prev = <<>> THEN 0 ELSE Abs(feed.prev[1].v - feed.E.v)

\* C10 (as claimed): after N >= 50 ticks of the same effectiveEV E the
\* smoothed EV is within 1e-6 EV (one unit) of E, from any smoother state and
\* for any smoothing factor in (0,1).
C10_Original ==
  feed.n >= 50 => (feed.prev # <<>> /\ Distance <= EVUnit \div 10^6)

\* C10 (amended): from an unset smoother the first tick makes smoothedEV
\* equal to E and it stays there; from a set state every tick multiplies the
\* distance to E by (1 - alpha), up to rounding, so the distance never grows
\* and after N ticks it is (1 - alpha)^N times the initial distance.
C10_Contraction ==
  /\ [](feed.start = <<>> /\ feed.n >= 1 => feed.prev = <<feed.E>>)
  /\ [][(feed'.n = feed.n + 1 /\ feed.prev # <<>>) =>
          /\ feed'.prev # <<>>
          /\ 100 * Abs(feed'.prev[1].v - feed.E.v)
               <= (100 - feed.alpha.v) * Distance + 50
          /\ 100 * Abs(feed'.prev[1].v - feed.E.v)
               >= (100 - feed.alpha.v) * Distance - 50]_vars

C10_Witness ==
  /\ feed.n >= 50 /\ feed.start # <<>> /\ feed.alpha = Fin(10)
  /\ Distance > 1000

====
